---------------------------- MODULE Spec2Model ----------------------------
(***************************************************************************)
(* A model of the simulation core of the retro UFO game: the per-frame     *)
(* handler animate() of src/js/main.js with everything it calls            *)
(* (updateUFO, updateTractorBeam, updateCows, updateJets, updateMissiles,  *)
(* ParticleSystem.update, checkCollisions, damagePlayer), the              *)
(* GameStateManager of src/unnamed/part_001 and the ParticleSystem of      *)
(* src/unnamed/part_000.                                                   *)
(*                                                                         *)
(* Numbers.  The program computes in IEEE doubles; the model computes in   *)
(* fixed point, truncating toward zero:                                    *)
(*   lengths, positions, velocities, speeds   1/1000 of a world unit       *)
(*   abduction progress, particle opacity     1/100                        *)
(*   times                                    milliseconds of Date.now()   *)
(*   drag and spawn-rate factors              percent                      *)
(* TLC's integers are 32 bits wide, so squared lengths are kept as pairs   *)
(* <<hi, lo>> standing for hi * 10^6 + lo.                                 *)
(*                                                                         *)
(* Math.random() and the wall clock are inputs: every draw is a parameter  *)
(* of the action that uses it, taken from a small set.                     *)
(***************************************************************************)
EXTENDS Integers, Sequences, FiniteSets, TLC

(***************************************************************************)
(* Program constants (src/js/main.js:26-43), in the units above.           *)
(***************************************************************************)
MAX_SPEED == 500
ACCELERATION == 10
DECELERATION == 98
HOVER_SPEED == 5
HOVER_HEIGHT == 100
GAME_BOUNDS == 200000
BEAM_RANGE == 10000
BEAM_STRENGTH == 5
JET_SPEED == 300
MISSILE_SPEED == 500
SPAWN_INTERVAL_BASE == 5000
SPAWN_INTERVAL_MIN == 1000
SPAWN_RATE_INCREASE == 10
\* ufo.position.y floor in updateUFO, completion radius and score award in
\* updateTractorBeam, the age limit in updateMissiles, collision radii.
UFO_MIN_HEIGHT == 5000
ABDUCT_RADIUS == 3000
ABDUCT_SCORE == 100
MISSILE_MAX_LIFE == 500
UFO_RADIUS == 2000
JET_RADIUS == 2500
MISSILE_RADIUS == 500
UFO_START_HEIGHT == 20000
SPAWN_DISTANCE == 240000
OUT_OF_BOUNDS == 300000
MAX_HIGH_SCORES == 5
START_HEALTH == 3

(***************************************************************************)
(* Bounds of the model.                                                    *)
(***************************************************************************)
\* createCows makes COW_COUNT (15 in the program) creatures; the model makes
\* this many.
COW_COUNT == 2
\* createEmitter makes settings.count particles (5..250); the model keeps at
\* most this many per emitter.
MaxParticles == 1
\* The clock Date.now() at construction, later than any fire interval, so
\* that "now - 0" exceeds every interval as it does for the real clock.
ClockStart == 10000
\* Frames are taken while the clock has advanced by at most this much.
Horizon == 9000

(***************************************************************************)
(* Arithmetic.                                                             *)
(***************************************************************************)
Abs(a) == IF a < 0 THEN -a ELSE a
Sign(a) == IF a > 0 THEN 1 ELSE IF a < 0 THEN -1 ELSE 0
Min(a, b) == IF a < b THEN a ELSE b
Max(a, b) == IF a > b THEN a ELSE b
\* a * b / c truncated toward zero
MulDiv(a, b, c) == IF a * b >= 0 THEN (a * b) \div c ELSE -((-(a * b)) \div c)

\* The square of d as a pair <<hi, lo>> = hi * 10^6 + lo, 0 <= lo < 10^6.
Sq(d) ==
    LET a == Abs(d) \div 1000
        b == Abs(d) % 1000
        low == 2 * a * b * 1000 + b * b
    IN  <<a * a + low \div 1000000, low % 1000000>>
PairAdd(p, q) ==
    <<p[1] + q[1] + (p[2] + q[2]) \div 1000000, (p[2] + q[2]) % 1000000>>
PairLess(p, q) == p[1] < q[1] \/ (p[1] = q[1] /\ p[2] < q[2])

Vec(x, y, z) == [x |-> x, y |-> y, z |-> z]
Zero3 == Vec(0, 0, 0)
VAdd(u, v) == Vec(u.x + v.x, u.y + v.y, u.z + v.z)
VSub(u, v) == Vec(u.x - v.x, u.y - v.y, u.z - v.z)
\* |v|^2 as a pair
LengthSq(v) == PairAdd(Sq(v.x), PairAdd(Sq(v.y), Sq(v.z)))
\* distanceTo(b) < r  and  distanceTo(b) > r, exactly, on the grid
DistLess(a, b, r) == PairLess(LengthSq(VSub(a, b)), Sq(r))
DistGreater(a, b, r) == PairLess(Sq(r), LengthSq(VSub(a, b)))

\* floor(sqrt(hi * 10^6 + lo)) by bisection on [lo_, hi_]
RECURSIVE SqrtBetween(_, _, _)
SqrtBetween(p, lo_, hi_) ==
    IF lo_ >= hi_ THEN lo_
    ELSE LET mid == (lo_ + hi_ + 1) \div 2
         IN  IF PairLess(p, Sq(mid)) THEN SqrtBetween(p, lo_, mid - 1)
             ELSE SqrtBetween(p, mid, hi_)
Length(v) == SqrtBetween(LengthSq(v), 0, Min(Abs(v.x) + Abs(v.y) + Abs(v.z), 1000000))
\* Vector3.normalize().multiplyScalar(s): the zero vector stays zero
Scaled(v, s, len) ==
    IF len = 0 THEN Zero3
    ELSE Vec(MulDiv(v.x, s, len), MulDiv(v.y, s, len), MulDiv(v.z, s, len))
ScaleTo(v, s) == Scaled(v, s, Length(v))
\* THREE.MathUtils.lerp(a, b, t) with t = num / den
Lerp(a, b, num, den) == a + MulDiv(b - a, num, den)


(***************************************************************************)
(* Within one handler the program state is carried in a record W:          *)
(*   gsm       the GameStateManager: currentState, score, health,          *)
(*             highScores (the scores of the entries, in list order)       *)
(*   ufo       the craft: pos (ufo.position), vel (velocity), hoverOffset, *)
(*             hoverDirection, beam (tractorBeam.visible)                  *)
(*   cows, jets, missiles   the three arrays, in array order               *)
(*   ps        ParticleSystem.particleSystems, in array order              *)
(*   lastJetSpawn, currentSpawnInterval   the spawn timers                 *)
(*   events    what the handler did, in order: records [op, id, aux]       *)
(*   used      the identities taken so far (objects are told apart by a    *)
(*             number; a new object takes the least number not in use)     *)
(*   boundTo, miniMap, detached   the array objects: which array each of   *)
(*             cows, jets, missiles is bound to, which ones the mini-map   *)
(*             holds, and the contents of those only the mini-map holds    *)
(***************************************************************************)
Ev(op, id, aux) == [op |-> op, id |-> id, aux |-> aux]
Log(W, op, id, aux) == [W EXCEPT !.events = Append(@, Ev(op, id, aux))]
FreshId(W) == CHOOSE n \in 1..(Cardinality(W.used) + 1) :
                 n \notin W.used /\ \A m \in 1..(n - 1) : m \in W.used
\* arr.splice(k, 1), k counted from 1
Splice(arr, k) == [i \in 1..(Len(arr) - 1) |-> IF i < k THEN arr[i] ELSE arr[i + 1]]
\* arr.indexOf of the object with identity id: 0 when absent
IndexOfId(arr, id) ==
    IF \E i \in 1..Len(arr) : arr[i].id = id
    THEN CHOOSE i \in 1..Len(arr) : arr[i].id = id
    ELSE 0

(***************************************************************************)
(* ParticleSystem (src/unnamed/part_000).                                  *)
(***************************************************************************)
\* this.particleTypes, the profiles the game uses
particleTypes ==
    [exhaust   |-> [count |-> 50, lifetime |-> 30, speed |-> 50, spread |-> 100,
                    gravity |-> 1, opacity |-> 70, fadeRate |-> 3],
     explosion |-> [count |-> 100, lifetime |-> 60, speed |-> 200, spread |-> 800,
                    gravity |-> 1, opacity |-> 100, fadeRate |-> 2],
     sparkle   |-> [count |-> 20, lifetime |-> 20, speed |-> 30, spread |-> 300,
                    gravity |-> -1, opacity |-> 90, fadeRate |-> 5]]

\* One particle as createEmitter makes it: at the emitter, age 0, profile
\* opacity, velocity = (normalize(direction) + spread draw) rescaled to
\* speed * (0.5 + random).  rnd.spread is the spread draw (a vector of
\* components in -500..500, per unit of spread), rnd.mag is 100 * random.
NewParticle(settings, direction, rnd) ==
    [pos |-> Zero3,
     vel |-> ScaleTo(VAdd(ScaleTo(direction, 1000),
                          Vec(MulDiv(rnd.spread.x, settings.spread, 1000),
                              MulDiv(rnd.spread.y, settings.spread, 1000),
                              MulDiv(rnd.spread.z, settings.spread, 1000))),
                     MulDiv(settings.speed, 50 + rnd.mag, 100)),
     age |-> 0,
     opacity |-> settings.opacity]

\* createEmitter(type, position, direction, options): the new emitter gets
\* identity id and is pushed on particleSystems.  options.count = 0 stands
\* for "not given".
createEmitter(W, id, type, position, direction, oneShot, emissionRate, count, rnd) ==
    LET settings == particleTypes[type]
        n == Min(IF count = 0 THEN settings.count ELSE count, MaxParticles)
        em == [id |-> id, type |-> type, pos |-> position,
               active |-> TRUE, oneShot |-> oneShot,
               emissionRate |-> emissionRate, emissionCounter |-> 0,
               particles |-> [i \in 1..n |-> NewParticle(settings, direction, rnd)]]
    IN  [W EXCEPT !.ps = Append(@, em), !.used = @ \cup {id}]

\* createExplosion(position, size, count): a one-shot explosion emitter
createExplosion(W, position, count, rnd) ==
    createEmitter(W, FreshId(W), "explosion", position, Vec(0, 1000, 0),
                  TRUE, 1, count, rnd)

\* createEngineExhaust(object, offset): a continuous exhaust emitter that
\* emits every other frame
createEngineExhaust(W, id, position, rnd) ==
    createEmitter(W, id, "exhaust", position, Vec(0, 0, 1000),
                  FALSE, 2, 0, rnd)

\* A faulty update, to test the fade against: the opacity is lowered from
\* the first update on.
updateParticle_FadesAtOnce(p, em, counter, jitter) ==
    LET settings == particleTypes[em.type]
    IN  IF p.age < settings.lifetime \/ (~em.oneShot /\ counter = 0)
        THEN LET reset == ~em.oneShot /\ p.age >= settings.lifetime
                 p0 == IF reset
                       THEN [pos |-> Zero3, age |-> 0,
                             opacity |-> settings.opacity,
                             vel |-> VAdd(p.vel, jitter)]
                       ELSE p
             IN  [pos |-> VAdd(p0.pos, p0.vel),
                  vel |-> [p0.vel EXCEPT !.y = @ - settings.gravity],
                  age |-> p0.age + 1,
                  opacity |-> Max(p0.opacity - settings.fadeRate, 0)]
        ELSE p

\* A faulty update, to test the emission counter against: an expired
\* particle of a continuous emitter is recycled in every call.
updateParticle_AnyCall(p, em, counter, jitter) ==
    LET settings == particleTypes[em.type]
    IN  IF p.age < settings.lifetime \/ ~em.oneShot
        THEN LET reset == ~em.oneShot /\ p.age >= settings.lifetime
                 p0 == IF reset
                       THEN [pos |-> Zero3, age |-> 0,
                             opacity |-> settings.opacity,
                             vel |-> VAdd(p.vel, jitter)]
                       ELSE p
                 age1 == p0.age + 1
                 faded == IF age1 * 10 > settings.lifetime * 7
                          THEN Max(p0.opacity - settings.fadeRate, 0)
                          ELSE p0.opacity
             IN  [pos |-> VAdd(p0.pos, p0.vel),
                  vel |-> [p0.vel EXCEPT !.y = @ - settings.gravity],
                  age |-> age1,
                  opacity |-> faded]
        ELSE p

\* The body of updateParticles' loop for one particle; counter is the
\* emission counter after its increment, jitter the velocity jitter drawn
\* on a reset.
updateParticle(p, em, counter, jitter) ==
    LET settings == particleTypes[em.type]
    IN  IF p.age < settings.lifetime \/ (~em.oneShot /\ counter = 0)
        THEN LET reset == ~em.oneShot /\ p.age >= settings.lifetime
                 p0 == IF reset
                       THEN [pos |-> Zero3, age |-> 0,
                             opacity |-> settings.opacity,
                             vel |-> VAdd(p.vel, jitter)]
                       ELSE p
                 age1 == p0.age + 1
                 faded == IF age1 * 10 > settings.lifetime * 7
                          THEN Max(p0.opacity - settings.fadeRate, 0)
                          ELSE p0.opacity
             IN  [pos |-> VAdd(p0.pos, p0.vel),
                  vel |-> [p0.vel EXCEPT !.y = @ - settings.gravity],
                  age |-> age1,
                  opacity |-> faded]
        ELSE p

\* updateParticles(ps)
updateParticles(em, jitter) ==
    LET counter == (em.emissionCounter + 1) % em.emissionRate
    IN  [em EXCEPT !.emissionCounter = counter,
                   !.particles = [i \in 1..Len(@) |->
                                     updateParticle(@[i], em, counter, jitter)]]

\* the allDead test of update()
\* A faulty test, to test the end of one-shot emitters against: > for >=.
AllDead_Past(em) ==
    \A j \in 1..Len(em.particles) :
        em.particles[j].age > particleTypes[em.type].lifetime
AllDead(em) ==
    \A j \in 1..Len(em.particles) :
        ~(em.particles[j].age < particleTypes[em.type].lifetime)

\* A faulty update, to test the persistence of continuous emitters against:
\* an emitter with no live particle leaves whether it is one-shot or not.
DropIfDead_AnyKind(W, i, em) ==
    IF AllDead(em)
    THEN Log([W EXCEPT !.ps = Splice(@, i)], "emitterDied", em.id, 0)
    ELSE [W EXCEPT !.ps[i] = em]

\* A faulty update, to test the lifetime of one-shot emitters against: the
\* emitter is kept whatever the age of its particles.
DropIfDead_Keeps(W, i, em) == [W EXCEPT !.ps[i] = em]

\* update(), after updateParticles made emitter i into em: a one-shot
\* emitter with no live particle leaves particleSystems
DropIfDead(W, i, em) ==
    IF em.oneShot /\ AllDead(em)
    THEN Log([W EXCEPT !.ps = Splice(@, i)], "emitterDied", em.id, 0)
    ELSE [W EXCEPT !.ps[i] = em]

\* update(): the emitters from the last to the first
RECURSIVE UpdateFrom(_, _, _)
UpdateFrom(W, i, jitter) ==
    IF i < 1 THEN W
    ELSE IF ~W.ps[i].active THEN UpdateFrom(W, i - 1, jitter)
    ELSE UpdateFrom(DropIfDead(W, i, updateParticles(W.ps[i], jitter)),
                    i - 1, jitter)
ParticleSystemUpdate(W, jitter) == UpdateFrom(W, Len(W.ps), jitter)

\* updateEmitterPosition(emitter, position): emitter is an identity, 0 for
\* none; an emitter that left particleSystems is still repositioned in the
\* program, which no longer shows anywhere
updateEmitterPosition(W, id, position) ==
    LET i == IndexOfId(W.ps, id)
    IN  IF i = 0 THEN W ELSE [W EXCEPT !.ps[i].pos = position]

\* removeEmitter(emitter)
\* A faulty removal, to test the removal of a removed emitter against: the
\* splice is not guarded by index !== -1, and splice(-1, 1) takes the last
\* element out.
removeEmitter_Unguarded(W, id) ==
    LET i == IF id = 0 THEN 0 ELSE IndexOfId(W.ps, id)
        W1 == Log(W, "removeEmitter", id, i)
    IN  IF id = 0 \/ Len(W.ps) = 0 THEN W1
        ELSE [W1 EXCEPT !.ps = Splice(@, IF i = 0 THEN Len(@) ELSE i)]
removeEmitter(W, id) ==
    LET i == IF id = 0 THEN 0 ELSE IndexOfId(W.ps, id)
        W1 == Log(W, "removeEmitter", id, i)
    IN  IF i = 0 THEN W1 ELSE [W1 EXCEPT !.ps = Splice(@, i)]

(***************************************************************************)
(* GameStateManager (src/unnamed/part_001).                                *)
(***************************************************************************)
\* saveHighScore(score): push, sort highest first (the sort is stable, so the
\* new entry comes after the entries with the same score), keep the top 5
saveHighScore(hs, score) ==
    LET k == Cardinality({i \in 1..Len(hs) : hs[i] >= score})
        sorted == [i \in 1..(Len(hs) + 1) |->
                      IF i <= k THEN hs[i] ELSE IF i = k + 1 THEN score ELSE hs[i - 1]]
    IN  SubSeq(sorted, 1, Min(Len(sorted), MAX_HIGH_SCORES))

\* endGame()
endGame(W) ==
    Log([W EXCEPT !.gsm.highScores = saveHighScore(@, W.gsm.score),
                  !.gsm.currentState = "gameOver"],
        "endGame", 0, W.gsm.score)

\* updateScore(newScore)
updateScore(W, newScore) ==
    Log([W EXCEPT !.gsm.score = newScore], "updateScore", 0, newScore)

\* updateHealth(newHealth)
updateHealth(W, newHealth) ==
    LET W1 == Log([W EXCEPT !.gsm.health = newHealth], "updateHealth", 0, newHealth)
    IN  IF newHealth <= 0 THEN endGame(W1) ELSE W1

\* A faulty gate, to test the gating of the simulation against: the paused
\* state counts as active.
isGameActive_AlsoPaused(g) == g.currentState \in {"playing", "paused"}

\* isGameActive()
isGameActive(g) == g.currentState = "playing"

(***************************************************************************)
(* The beam and the creatures (src/js/main.js).                            *)
(***************************************************************************)
\* 1000 * Math.sin of an angle in 1/1000 rad, 0 <= t < 2 pi: Bhaskara's
\* rational approximation of the sine, 16 q / (5 pi^2 - 4 q) with
\* q = x (pi - x) (error below 0.002)
Sin1000(t) ==
    LET x == IF t < 3142 THEN t ELSE t - 3142
        q == x * (3142 - x)
        v == (16 * q) \div ((5 * 3142 * 3142 - 4 * q) \div 1000)
    IN  IF t < 3142 THEN v ELSE -v
SinTimes(t, amp) == MulDiv(Sin1000(t), amp, 1000)

\* A faulty tightening, to test the properties of the spawn interval against:
\* the factor 1 + rate instead of 1 - rate.
TightenInterval_Loosen(interval) ==
    Max(SPAWN_INTERVAL_MIN, MulDiv(interval, 100 + SPAWN_RATE_INCREASE, 100))

\* the tightening of the spawn interval on a completed abduction
TightenInterval(interval) ==
    Max(SPAWN_INTERVAL_MIN, MulDiv(interval, 100 - SPAWN_RATE_INCREASE, 100))

\* A faulty test, to test the properties of the abduction against: the
\* altitudes are not compared.
InBeam_AnyAltitude(cow, ufo) ==
    DistLess(Vec(cow.pos.x, 0, cow.pos.z), Vec(ufo.pos.x, 0, ufo.pos.z),
             BEAM_RANGE \div 2)
\* the test that starts an abduction
InBeam(cow, ufo) ==
    /\ DistLess(Vec(cow.pos.x, 0, cow.pos.z), Vec(ufo.pos.x, 0, ufo.pos.z),
                BEAM_RANGE \div 2)
    /\ cow.pos.y < ufo.pos.y

\* the pull of one frame on a creature being abducted
PullCow(cow, ufo) ==
    LET progress == cow.abductionProgress + BEAM_STRENGTH
        \* lerpFactor * 0.05 = progress / 100 * 5 / 100 = progress / 2000
    IN  [cow EXCEPT !.abductionProgress = progress,
                    !.pos = Vec(Lerp(cow.pos.x, ufo.pos.x, progress, 2000),
                                Lerp(cow.pos.y, ufo.pos.y - 1000, progress, 2000),
                                Lerp(cow.pos.z, ufo.pos.z, progress, 2000))]

\* the completion of an abduction: sparkles, the creature leaves the array,
\* the score goes up, the spawn interval goes down
\* A faulty completion, to test the properties of the abduction against: the
\* creature is not spliced out of the array.
CompleteAbduction_KeepsCow(W, k, rnd) ==
    [updateScore(Log(createEmitter(W, FreshId(W), "sparkle", W.cows[k].pos,
                                   Vec(0, 1000, 0), TRUE, 1, 30, rnd),
                     "abducted", W.cows[k].id, k),
                 W.gsm.score + ABDUCT_SCORE)
        EXCEPT !.currentSpawnInterval = TightenInterval(@)]

\* A faulty award, to test the score against: 200 for a creature.
Award_Twice(W) ==
    [updateScore(W, W.gsm.score + 2 * ABDUCT_SCORE)
        EXCEPT !.currentSpawnInterval = TightenInterval(@)]

\* the score and the spawn interval after a completion
Award(W) ==
    [updateScore(W, W.gsm.score + ABDUCT_SCORE)
        EXCEPT !.currentSpawnInterval = TightenInterval(@)]
CompleteAbduction(W, k, rnd) ==
    Award(Log([createEmitter(W, FreshId(W), "sparkle", W.cows[k].pos,
                             Vec(0, 1000, 0), TRUE, 1, 30, rnd)
                  EXCEPT !.cows = Splice(@, k)],
              "abducted", W.cows[k].id, k))

\* the else-branch of the callback for the creature at index k, pulled to
\* where the record pulled has it
ContinueAbduction(W, k, pulled, rnd) ==
    IF DistLess(pulled.pos, W.ufo.pos, ABDUCT_RADIUS)
    THEN CompleteAbduction(Log([W EXCEPT !.cows[k] = pulled], "pull", pulled.id,
                               pulled.abductionProgress), k, rnd)
    ELSE Log([W EXCEPT !.cows[k] = pulled], "pull", pulled.id,
             pulled.abductionProgress)

\* the callback of cows.forEach in updateTractorBeam, for the creature at
\* index k
BeamCow(W, k, rnd) ==
    LET cow == W.cows[k]
        W0 == Log(W, "visitCow", cow.id, k)
    IN  IF ~cow.isBeingAbducted
        THEN IF InBeam(cow, W.ufo)
             THEN Log([W0 EXCEPT !.cows[k].isBeingAbducted = TRUE,
                                 !.cows[k].abductionProgress = 0],
                      "startAbduct", cow.id, k)
             ELSE W0
        ELSE ContinueAbduction(W0, k, PullCow(cow, W.ufo), rnd)

\* cows.forEach(...) as Array.prototype.forEach runs it: index after index
\* of the array as it is when each index comes up, up to the length the
\* array had when the traversal began; an index past the end is passed
\* over.  The callback only ever shortens the array, so the traversal is
\* over at the first index past the end.
RECURSIVE ForEachCow(_, _, _)
ForEachCow(W, k, rnd) ==
    IF k > Len(W.cows) THEN W
    ELSE ForEachCow(BeamCow(W, k, rnd), k + 1, rnd)

\* A faulty beam, to test the properties of the abduction against: the
\* creatures are let go when the beam is off.
updateTractorBeam_LetsGo(W, keyE, rnd) ==
    IF ~keyE
    THEN [W EXCEPT !.ufo.beam = FALSE,
                   !.cows = [i \in 1..Len(@) |-> [@[i] EXCEPT !.isBeingAbducted = FALSE]]]
    ELSE ForEachCow([W EXCEPT !.ufo.beam = TRUE], 1, rnd)

\* updateTractorBeam(); keyE is keys.KeyE, rnd.sparkle is Math.random() < 0.2
updateTractorBeam(W, keyE, rnd) ==
    IF ~keyE THEN [W EXCEPT !.ufo.beam = FALSE]
    ELSE ForEachCow(IF rnd.sparkle
                    THEN createEmitter([W EXCEPT !.ufo.beam = TRUE], FreshId(W),
                                       "sparkle", VAdd(W.ufo.pos, Vec(0, 5000, 0)),
                                       Vec(0, 1000, 0), TRUE, 1, 5, rnd)
                    ELSE [W EXCEPT !.ufo.beam = TRUE],
                    1, rnd)

\* the callback of cows.forEach in updateCows
IdleCow(cow) ==
    IF cow.isBeingAbducted THEN cow
    ELSE LET timer == (cow.timer + cow.speed) % 6283
         IN  [cow EXCEPT !.timer = timer,
                         !.pos.y = @ + SinTimes(timer, 50)]

\* updateCows()
updateCows(W) == [W EXCEPT !.cows = [i \in 1..Len(@) |-> IdleCow(@[i])]]

(***************************************************************************)
(* The craft (src/js/main.js, updateUFO).  held is the set of keys held.   *)
(***************************************************************************)
\* acceleration from the six movement keys
KeyAcceleration(held) ==
    Vec((IF "ArrowRight" \in held THEN ACCELERATION ELSE 0)
          - (IF "ArrowLeft" \in held THEN ACCELERATION ELSE 0),
        (IF "Space" \in held THEN ACCELERATION ELSE 0)
          - (IF "Shift" \in held THEN ACCELERATION ELSE 0),
        (IF "ArrowDown" \in held THEN ACCELERATION ELSE 0)
          - (IF "ArrowUp" \in held THEN ACCELERATION ELSE 0))

\* velocity.add(acceleration), the drag, the speed limit
NextVelocity_Unlimited(vel, held) ==
    LET v1 == VAdd(vel, KeyAcceleration(held))
    IN  Vec(MulDiv(v1.x, DECELERATION, 100), MulDiv(v1.y, DECELERATION, 100),
            MulDiv(v1.z, DECELERATION, 100))
NextVelocity(vel, held) ==
    LET a == KeyAcceleration(held)
        v1 == VAdd(vel, a)
        v2 == Vec(MulDiv(v1.x, DECELERATION, 100), MulDiv(v1.y, DECELERATION, 100),
                  MulDiv(v1.z, DECELERATION, 100))
    IN  IF DistGreater(v2, Zero3, MAX_SPEED) THEN ScaleTo(v2, MAX_SPEED) ELSE v2

\* the move by velocity v, the height floor and the bounce off the play
\* boundary
MoveBy_KeepsSpeed(ufo, v) ==
    LET p == VAdd(ufo.pos, v)
    IN  [ufo EXCEPT
           !.pos = Vec(Max(-GAME_BOUNDS, Min(GAME_BOUNDS, p.x)),
                       Max(UFO_MIN_HEIGHT, p.y),
                       Max(-GAME_BOUNDS, Min(GAME_BOUNDS, p.z))),
           !.vel = Vec(v.x, IF p.y < UFO_MIN_HEIGHT THEN 0 ELSE v.y, v.z)]
MoveBy(ufo, v) ==
    LET p == VAdd(ufo.pos, v)
        low == p.y < UFO_MIN_HEIGHT
        outX == Abs(p.x) > GAME_BOUNDS
        outZ == Abs(p.z) > GAME_BOUNDS
    IN  [ufo EXCEPT
           !.pos = Vec(IF outX THEN Sign(p.x) * GAME_BOUNDS ELSE p.x,
                       IF low THEN UFO_MIN_HEIGHT ELSE p.y,
                       IF outZ THEN Sign(p.z) * GAME_BOUNDS ELSE p.z),
           !.vel = Vec(IF outX THEN MulDiv(v.x, -5, 10) ELSE v.x,
                       IF low THEN 0 ELSE v.y,
                       IF outZ THEN MulDiv(v.z, -5, 10) ELSE v.z)]
MoveUFO(ufo, held) == MoveBy(ufo, NextVelocity(ufo.vel, held))

\* the hovering effect
Hover(ufo) ==
    LET offset == ufo.hoverOffset + HOVER_SPEED * ufo.hoverDirection
        dir == IF Abs(offset) > HOVER_HEIGHT
               THEN -ufo.hoverDirection ELSE ufo.hoverDirection
    IN  [ufo EXCEPT !.hoverOffset = offset,
                    !.hoverDirection = dir,
                    !.pos.y = @ + HOVER_SPEED * dir]

\* updateUFO(): move, hover, the beam, the exhaust emitter follows the craft
\* (the turn and bank of the craft and the sounds are presentation)
ExhaustFollows(W) ==
    updateEmitterPosition(W, W.ufo.exhaustEmitter, VAdd(W.ufo.pos, Vec(0, -1500, 0)))
updateUFO(W, held, rnd) ==
    ExhaustFollows(updateTractorBeam([W EXCEPT !.ufo = Hover(MoveUFO(@, held))],
                                     "KeyE" \in held, rnd))

(***************************************************************************)
(* Attackers and projectiles (src/js/main.js).                             *)
(***************************************************************************)
\* createMissileModel(position, direction): the exhaust emitter, then the
\* projectile is pushed on missiles
PushMissile(W, m) ==
    Log([W EXCEPT !.missiles = Append(@, m), !.used = @ \cup {m.id}],
        "fire", m.id, m.exhaustEmitter)
NewMissile(W, eid, position, direction) ==
    PushMissile(W, [id |-> FreshId(W), pos |-> position,
                    direction |-> ScaleTo(direction, 1000),
                    lifeTime |-> 0, exhaustEmitter |-> eid])
createMissileModel(W, position, direction, rnd) ==
    NewMissile(createEmitter(W, FreshId(W), "exhaust", Zero3, Vec(0, 0, 1000),
                             FALSE, 1, 20, rnd),
               FreshId(W), position, direction)

\* createJetModel() and spawnJet(): rnd.angle is <<cos, sin>> of the random
\* angle (in 1/1000), rnd.alt the altitude offset, rnd.speed the speed factor
\* in percent, rnd.fireRate the fire interval
PushJet(W, jet) ==
    Log([W EXCEPT !.jets = Append(@, jet), !.used = @ \cup {jet.id}],
        "spawn", jet.id, jet.exhaustEmitter)
NewJet(W, eid, rnd) ==
    PushJet(W, [id |-> FreshId(W),
                pos |-> Vec(MulDiv(rnd.angle[1], SPAWN_DISTANCE, 1000),
                            W.ufo.pos.y + rnd.alt,
                            MulDiv(rnd.angle[2], SPAWN_DISTANCE, 1000)),
                speed |-> MulDiv(JET_SPEED, rnd.speed, 100),
                lastFired |-> 0,
                fireRate |-> rnd.fireRate,
                exhaustEmitter |-> eid,
                engineSound |-> TRUE])
spawnJet(W, rnd) ==
    NewJet(createEngineExhaust(W, FreshId(W), Vec(-2000, 0, 0), rnd), FreshId(W), rnd)

\* the removal of the attacker at index k: stop the engine sound if it
\* plays, remove the exhaust emitter if there is one, splice
RemoveJet(W, k) ==
    LET jet == W.jets[k]
        W1 == IF jet.engineSound THEN Log(W, "stopSound", jet.id, 0) ELSE W
        W2 == IF jet.exhaustEmitter # 0 THEN removeEmitter(W1, jet.exhaustEmitter)
              ELSE W1
    IN  Log([W2 EXCEPT !.jets = Splice(@, k)], "removeJet", jet.id, jet.exhaustEmitter)

\* A faulty removal, to test the release of emitters against: the projectile
\* leaves the array and its emitter stays.
RemoveMissile_KeepsEmitter(W, k) ==
    Log([W EXCEPT !.missiles = Splice(@, k)], "removeMissile", W.missiles[k].id,
        W.missiles[k].exhaustEmitter)

\* the removal of the projectile at index k
RemoveMissile(W, k) ==
    LET m == W.missiles[k]
        W1 == IF m.exhaustEmitter # 0 THEN removeEmitter(W, m.exhaustEmitter) ELSE W
    IN  Log([W1 EXCEPT !.missiles = Splice(@, k)], "removeMissile", m.id,
            m.exhaustEmitter)

\* the firing test of an attacker
ShouldFire(jet, currentTime) == currentTime - jet.lastFired > jet.fireRate

\* The callback of jets.forEach in updateJets, for the attacker at index k,
\* in three steps: the move to pos with the exhaust emitter following, ...
PlaceJet(W, k, pos) ==
    IF W.jets[k].exhaustEmitter # 0
    THEN updateEmitterPosition(
             Log([W EXCEPT !.jets[k].pos = pos], "visitJet", W.jets[k].id, k),
             W.jets[k].exhaustEmitter, VAdd(pos, Vec(-2000, 0, 0)))
    ELSE Log([W EXCEPT !.jets[k].pos = pos], "visitJet", W.jets[k].id, k)
\* ... the shot at the craft when one is due, ...
FireJet(W, k, currentTime, rnd) ==
    IF ShouldFire(W.jets[k], currentTime)
    THEN [createMissileModel(W, W.jets[k].pos, VSub(W.ufo.pos, W.jets[k].pos), rnd)
             EXCEPT !.jets[k].lastFired = currentTime]
    ELSE W
\* ... and the removal of an attacker too far from the craft
RetireJet(W, k) ==
    IF DistGreater(W.jets[k].pos, W.ufo.pos, OUT_OF_BOUNDS)
    THEN RemoveJet(Log(W, "jetOutOfBounds", W.jets[k].id, k), k)
    ELSE W
MoveJet(W, k, currentTime, rnd) ==
    RetireJet(
        FireJet(PlaceJet(W, k, VAdd(W.jets[k].pos,
                                    ScaleTo(VSub(W.ufo.pos, W.jets[k].pos),
                                            W.jets[k].speed))),
                k, currentTime, rnd),
        k)

RECURSIVE ForEachJet(_, _, _, _)
ForEachJet(W, k, currentTime, rnd) ==
    IF k > Len(W.jets) THEN W
    ELSE ForEachJet(MoveJet(W, k, currentTime, rnd), k + 1, currentTime, rnd)

\* A faulty spawn test, to test the spawn schedule against: >= for >.
ShouldSpawn_AtInterval(currentTime, lastSpawn, interval) ==
    currentTime - lastSpawn >= interval

\* the spawn test of updateJets
ShouldSpawn(currentTime, lastSpawn, interval) == currentTime - lastSpawn > interval

\* updateJets(); currentTime is Date.now()
updateJets(W, currentTime, rnd) ==
    ForEachJet(IF ShouldSpawn(currentTime, W.lastJetSpawn, W.currentSpawnInterval)
               THEN [spawnJet(W, rnd) EXCEPT !.lastJetSpawn = currentTime]
               ELSE W,
               1, currentTime, rnd)

\* the removal test of updateMissiles, on the moved and aged projectile
MissileExpired(m, ufo) ==
    DistGreater(m.pos, ufo.pos, OUT_OF_BOUNDS) \/ m.lifeTime > MISSILE_MAX_LIFE

\* the callback of missiles.forEach in updateMissiles
MoveMissile(W, k) ==
    LET m == W.missiles[k]
        moved == [m EXCEPT !.pos = VAdd(@, Vec(MulDiv(m.direction.x, MISSILE_SPEED, 1000),
                                               MulDiv(m.direction.y, MISSILE_SPEED, 1000),
                                               MulDiv(m.direction.z, MISSILE_SPEED, 1000))),
                           !.lifeTime = @ + 1]
        W1 == Log([W EXCEPT !.missiles[k] = moved], "visitMissile", m.id, k)
    IN  IF MissileExpired(moved, W1.ufo)
        THEN RemoveMissile(Log(W1, IF DistGreater(moved.pos, W1.ufo.pos, OUT_OF_BOUNDS)
                                   THEN "missileOutOfBounds" ELSE "missileAgedOut",
                               m.id, moved.lifeTime), k)
        ELSE W1

RECURSIVE ForEachMissile(_, _)
ForEachMissile(W, k) ==
    IF k > Len(W.missiles) THEN W
    ELSE ForEachMissile(MoveMissile(W, k), k + 1)

\* updateMissiles()
updateMissiles(W) == ForEachMissile(W, 1)

(***************************************************************************)
(* Collisions and damage (src/js/main.js).                                 *)
(***************************************************************************)
\* damagePlayer(): updateHealth ends the game at health <= 0, and so does
\* damagePlayer itself, after a large explosion at the craft
OutOfHealth(W, rnd) ==
    IF W.gsm.health <= 0
    THEN endGame(createExplosion(W, W.ufo.pos, 250, rnd))
    ELSE W
damagePlayer(W, rnd) ==
    OutOfHealth(updateHealth(Log(W, "damage", 0, 0), W.gsm.health - 1), rnd)

\* the hit tests of checkCollisions
JetHits(jet, ufo) == DistLess(jet.pos, ufo.pos, UFO_RADIUS + JET_RADIUS)
MissileHits(m, ufo) == DistLess(m.pos, ufo.pos, UFO_RADIUS + MISSILE_RADIUS)

\* the callback of jets.forEach in checkCollisions
CollideJet(W, k, rnd) ==
    LET jet == W.jets[k]
    IN  IF JetHits(jet, W.ufo)
        THEN damagePlayer(
                 RemoveJet(Log(createExplosion(W, jet.pos, 150, rnd),
                               "hitJet", jet.id, k), k), rnd)
        ELSE W

\* the callback of missiles.forEach in checkCollisions
CollideMissile(W, k, rnd) ==
    LET m == W.missiles[k]
    IN  IF MissileHits(m, W.ufo)
        THEN damagePlayer(
                 RemoveMissile(Log(createExplosion(W, m.pos, 100, rnd),
                                   "hitMissile", m.id, k), k), rnd)
        ELSE W

RECURSIVE ForEachJetCollision(_, _, _)
ForEachJetCollision(W, k, rnd) ==
    IF k > Len(W.jets) THEN W
    ELSE ForEachJetCollision(CollideJet(W, k, rnd), k + 1, rnd)

RECURSIVE ForEachMissileCollision(_, _, _)
ForEachMissileCollision(W, k, rnd) ==
    IF k > Len(W.missiles) THEN W
    ELSE ForEachMissileCollision(CollideMissile(W, k, rnd), k + 1, rnd)

\* The entities within hit range when the collision pass begins are noted
\* in the log before the pass runs.
RECURSIVE NoteInRange(_, _, _)
NoteInRange(W, kind, k) ==
    LET arr == IF kind = "jet" THEN W.jets ELSE W.missiles
    IN  IF k > Len(arr) THEN W
        ELSE IF (IF kind = "jet" THEN JetHits(arr[k], W.ufo)
                                 ELSE MissileHits(arr[k], W.ufo))
             THEN NoteInRange(Log(W, "inRange", arr[k].id, k), kind, k + 1)
             ELSE NoteInRange(W, kind, k + 1)

\* checkCollisions()
checkCollisions(W, rnd) ==
    ForEachMissileCollision(
        ForEachJetCollision(NoteInRange(NoteInRange(W, "jet", 1), "missile", 1),
                            1, rnd),
        1, rnd)

(***************************************************************************)
(* The state.                                                              *)
(***************************************************************************)
VARIABLES
    gsm,                  \* the GameStateManager
    ufo,                  \* the craft
    cows, jets, missiles, \* the three arrays of main.js
    ps,                   \* particleSystem.particleSystems
    lastJetSpawn, currentSpawnInterval,
    keys,                 \* the keys held (those of the keys object set true)
    now,                  \* Date.now()
    events,               \* what the last handler did, in order
    endGameCalls,         \* endGame() calls since the last start or restart
    frames,               \* simulated frames since the last start or restart
    beamFrames,           \* per creature: the frames with the beam on since,
                          \* and with, the one that began its abduction
    born,                 \* per projectile: the number of the frame that
                          \* created it
    idleFrames,           \* the frames not simulated since the last start or
                          \* restart: <<Date.now() at the frame, ms since
                          \* the frame before>>
    boundTo,              \* the identity of the array each of cows, jets and
                          \* missiles is bound to
    miniMap,              \* the MiniMap: made (miniMap is set) and the
                          \* identities of the arrays in its gameObjects
    detached              \* the contents of the arrays that no variable of
                          \* main.js is bound to and the mini-map still holds

vars == <<gsm, ufo, cows, jets, missiles, ps, lastJetSpawn, currentSpawnInterval,
          keys, now, events, endGameCalls, frames, beamFrames, born, idleFrames,
          boundTo, miniMap, detached>>

Ids(arr) == {arr[i].id : i \in 1..Len(arr)}
Count(log, op) == Cardinality({i \in 1..Len(log) : log[i].op = op})
CountId(log, op, id) ==
    Cardinality({i \in 1..Len(log) : log[i].op = op /\ log[i].id = id})

\* the program state at the start of a handler
Work(first) ==
    [gsm |-> gsm, ufo |-> ufo, cows |-> cows, jets |-> jets, missiles |-> missiles,
     ps |-> ps, lastJetSpawn |-> lastJetSpawn,
     currentSpawnInterval |-> currentSpawnInterval,
     events |-> <<Ev(first, 0, 0)>>,
     used |-> Ids(cows) \cup Ids(jets) \cup Ids(missiles) \cup Ids(ps),
     boundTo |-> boundTo, miniMap |-> miniMap, detached |-> detached]

\* the program state a handler leaves
Store(W) ==
    /\ gsm' = W.gsm
    /\ ufo' = W.ufo
    /\ cows' = W.cows
    /\ jets' = W.jets
    /\ missiles' = W.missiles
    /\ ps' = W.ps
    /\ lastJetSpawn' = W.lastJetSpawn
    /\ currentSpawnInterval' = W.currentSpawnInterval
    /\ events' = W.events
    /\ boundTo' = W.boundTo
    /\ miniMap' = W.miniMap
    /\ detached' = W.detached
    /\ beamFrames' = [id \in Ids(W.cows) |->
                         IF CountId(W.events, "startAbduct", id) > 0 THEN 1
                         ELSE IF id \in DOMAIN beamFrames /\ CountId(W.events, "made", id) = 0
                              THEN IF beamFrames[id] > 0 /\ W.events[1].op = "frame"
                                      /\ W.ufo.beam
                                   THEN beamFrames[id] + 1 ELSE beamFrames[id]
                              ELSE 0]
    /\ born' = [id \in Ids(W.missiles) |->
                   IF CountId(W.events, "fire", id) > 0 THEN frames + 1 ELSE born[id]]

(***************************************************************************)
(* animate(): one frame.  dt is the time since the last frame.             *)
(***************************************************************************)
\* A faulty order, to test the order of the frame against: the collision
\* checks come first.
Simulate_CollideFirst(W, held, currentTime, rnd) ==
    ParticleSystemUpdate(
        updateMissiles(updateJets(updateCows(updateUFO(checkCollisions(W, rnd),
                                                       held, rnd)),
                                  currentTime, rnd)),
        rnd.jitter)

Simulate(W, held, currentTime, rnd) ==
    checkCollisions(
        ParticleSystemUpdate(
            updateMissiles(updateJets(updateCows(updateUFO(W, held, rnd)),
                                      currentTime, rnd)),
            rnd.jitter),
        rnd)

\* requestAnimationFrame(animate), the first statement of animate(): the
\* next frame is always on order; the clock of the model stops at the horizon
FrameDue(dt) ==
    /\ now + dt <= ClockStart + Horizon
    /\ now' = now + dt

Frame(dt, rnd) ==
    /\ FrameDue(dt)
    /\ keys' = keys
    /\ IF isGameActive(gsm)
       THEN \E W \in {Simulate(Work("frame"), keys, now + dt, rnd)} :
                /\ Store(W)
                /\ endGameCalls' = endGameCalls + Count(W.events, "endGame")
                /\ frames' = frames + 1
                /\ idleFrames' = idleFrames
       ELSE /\ events' = <<Ev("idleFrame", 0, 0)>>
            /\ idleFrames' = idleFrames \cup {<<now + dt, dt>>}
            /\ UNCHANGED <<gsm, ufo, cows, jets, missiles, ps, lastJetSpawn,
                           currentSpawnInterval, endGameCalls, frames, beamFrames, born,
                           boundTo, miniMap, detached>>

(***************************************************************************)
(* Starting and restarting (src/js/main.js and GameStateManager).          *)
(***************************************************************************)
\* the terrain height under (x, z): sin(x * 0.01) * cos(z * 0.01) * 10
TerrainHeight(x, z) ==
    MulDiv(Sin1000((x \div 100) % 6283) * Sin1000(((z \div 100) + 1571) % 6283),
           1, 100)

\* createCows(): herd[i] is the draw for creature i: x, z, the start of its
\* idle timer and its idle speed
RECURSIVE createCowsFrom(_, _, _)
createCowsFrom(W, herd, i) ==
    IF i > COW_COUNT THEN W
    ELSE LET id == FreshId(W)
             cow == [id |-> id,
                     pos |-> Vec(herd[i].x, TerrainHeight(herd[i].x, herd[i].z) + 1000,
                                 herd[i].z),
                     isBeingAbducted |-> FALSE,
                     abductionProgress |-> 0,
                     timer |-> herd[i].timer,
                     speed |-> herd[i].speed]
         IN  createCowsFrom(Log([W EXCEPT !.cows = Append(@, cow),
                                           !.used = @ \cup {id}], "made", id, i),
                            herd, i + 1)
createCows(W, herd) == createCowsFrom(W, herd, 1)

\* jets.forEach / missiles.forEach of startGame: sound stopped, emitter
\* removed; the arrays are replaced by empty ones afterwards
RECURSIVE ClearJets(_, _)
ClearJets(W, k) ==
    IF k > Len(W.jets) THEN W
    ELSE LET jet == W.jets[k]
             W1 == IF jet.engineSound THEN Log(W, "stopSound", jet.id, 0) ELSE W
             W2 == IF jet.exhaustEmitter # 0
                   THEN removeEmitter(W1, jet.exhaustEmitter) ELSE W1
         IN  ClearJets(Log(W2, "removeJet", jet.id, jet.exhaustEmitter), k + 1)
RECURSIVE ClearMissiles(_, _)
ClearMissiles(W, k) ==
    IF k > Len(W.missiles) THEN W
    ELSE LET m == W.missiles[k]
             W1 == IF m.exhaustEmitter # 0
                   THEN removeEmitter(W, m.exhaustEmitter) ELSE W
         IN  ClearMissiles(Log(W1, "removeMissile", m.id, m.exhaustEmitter), k + 1)

\* The arrays are objects: a variable of main.js is bound to one, and the
\* mini-map holds the ones it was given.  The identities in use:
HeldArrays(W) ==
    {W.boundTo[name] : name \in DOMAIN W.boundTo}
        \cup (IF W.miniMap.made
              THEN {W.miniMap.gameObjects[name] : name \in DOMAIN W.boundTo}
              ELSE {})
\* `name = []`: the variable is bound to a new, empty array; the array it
\* was bound to stays as it is for as long as the mini-map holds it
Rebind(W, name) ==
    LET old == W.boundTo[name]
        id == CHOOSE n \in 1..(Cardinality(HeldArrays(W)) + 1) : n \notin HeldArrays(W)
    IN  [W EXCEPT ![name] = <<>>,
                  !.boundTo[name] = id,
                  !.detached = IF W.miniMap.made /\ W.miniMap.gameObjects[name] = old
                               THEN [a \in DOMAIN @ \cup {old} |->
                                        IF a = old THEN W[name] ELSE @[a]]
                               ELSE @]
\* if (!miniMap) miniMap = new MiniMap({ufo, cows, jets, missiles}) (the
\* craft is one object for the whole run)
NewMiniMap(W) ==
    IF W.miniMap.made THEN W
    ELSE [W EXCEPT !.miniMap = [made |-> TRUE, gameObjects |-> W.boundTo]]
\* if (miniMap) miniMap.gameObjects.cows = cows
MiniMapTakesCows(W) ==
    IF W.miniMap.made
    THEN [W EXCEPT !.miniMap.gameObjects.cows = W.boundTo.cows,
                   !.detached = [a \in DOMAIN @ \cap {W.miniMap.gameObjects.jets,
                                                      W.miniMap.gameObjects.missiles}
                                    |-> @[a]]]
    ELSE W
\* what miniMap.gameObjects[name].forEach of drawBlips goes through
Blips(name) ==
    IF miniMap.gameObjects[name] = boundTo[name]
    THEN (IF name = "jets" THEN jets ELSE IF name = "missiles" THEN missiles ELSE cows)
    ELSE detached[miniMap.gameObjects[name]]

\* startGame() of main.js
CowsIfNone(W, herd) == IF Len(W.cows) = 0 THEN createCows(W, herd) ELSE W
mainStartGame(W, currentTime, herd) ==
    NewMiniMap(
        CowsIfNone(
            [Rebind(ClearMissiles(
                        Rebind(ClearJets([W EXCEPT !.ufo.pos = Vec(0, UFO_START_HEIGHT, 0),
                                                   !.ufo.vel = Zero3], 1),
                               "jets"), 1),
                    "missiles")
                EXCEPT !.lastJetSpawn = currentTime,
                       !.currentSpawnInterval = SPAWN_INTERVAL_BASE],
            herd))

\* A faulty restart, to test the re-initialisation against: the herd is not
\* replaced.
mainRestartGame_KeepsHerd(W, currentTime, herd) == mainStartGame(W, currentTime, herd)

\* restartGame() of main.js
mainRestartGame(W, currentTime, herd) ==
    mainStartGame(MiniMapTakesCows(createCows([Rebind(W, "cows")
                                                  EXCEPT !.used = @ \ Ids(W.cows)],
                                              herd)),
                  currentTime, herd)

\* GameStateManager.startGame() and restartGame() up to the callback
gsmStart(W) ==
    [updateHealth(updateScore([W EXCEPT !.gsm.score = 0,
                                        !.gsm.health = START_HEALTH], 0),
                  START_HEALTH)
        EXCEPT !.gsm.currentState = "playing"]

ClickStart(herd) ==
    /\ gsm.currentState = "start"
    /\ \E W \in {mainStartGame(gsmStart(Work("startGame")), now, herd)} : Store(W)
    /\ endGameCalls' = 0
    /\ frames' = 0
    /\ idleFrames' = {}
    /\ UNCHANGED <<keys, now>>

ClickRestart(herd) ==
    /\ gsm.currentState = "gameOver"
    /\ \E W \in {mainRestartGame(gsmStart(Work("restartGame")), now, herd)} : Store(W)
    /\ endGameCalls' = 0
    /\ frames' = 0
    /\ idleFrames' = {}
    /\ UNCHANGED <<keys, now>>

\* changeState(newState) with nothing else: the P key, the resume button,
\* the help button and its way back
ChangeState(from, to, what) ==
    /\ gsm.currentState = from
    /\ gsm' = [gsm EXCEPT !.currentState = to]
    /\ events' = <<Ev(what, 0, 0)>>
    /\ UNCHANGED <<ufo, cows, jets, missiles, ps, lastJetSpawn, currentSpawnInterval,
                   keys, now, endGameCalls, frames, beamFrames, born, idleFrames,
                   boundTo, miniMap, detached>>
PressP ==
    \/ ChangeState("playing", "paused", "pauseGame")
    \/ ChangeState("paused", "playing", "resumeGame")
ClickResume == ChangeState("paused", "playing", "resumeGame")
ClickHelp == ChangeState("start", "help", "help")
ClickHelpBack == ChangeState("help", "start", "helpBack")

\* keydown and keyup of a game key
KeyDown(k) ==
    /\ k \notin keys
    /\ keys' = keys \cup {k}
    /\ events' = <<Ev("keydown", 0, 0)>>
    /\ UNCHANGED <<gsm, ufo, cows, jets, missiles, ps, lastJetSpawn,
                   currentSpawnInterval, now, endGameCalls, frames, beamFrames, born,
                   idleFrames, boundTo, miniMap, detached>>
KeyUp(k) ==
    /\ k \in keys
    /\ keys' = keys \ {k}
    /\ events' = <<Ev("keyup", 0, 0)>>
    /\ UNCHANGED <<gsm, ufo, cows, jets, missiles, ps, lastJetSpawn,
                   currentSpawnInterval, now, endGameCalls, frames, beamFrames, born,
                   idleFrames, boundTo, miniMap, detached>>

(***************************************************************************)
(* Initial states.                                                         *)
(***************************************************************************)
\* a draw of every random number a handler may use
Rnd0 ==
    [sparkle |-> FALSE, spread |-> Zero3, mag |-> 50, jitter |-> Zero3,
     angle |-> <<1000, 0>>, alt |-> 0, speed |-> 100, fireRate |-> 3000]
Rnd1 ==
    [sparkle |-> TRUE, spread |-> Vec(500, -500, 0), mag |-> 100,
     jitter |-> Vec(10, 0, -10),
     angle |-> <<0, -1000>>, alt |-> 5000, speed |-> 120, fireRate |-> 5000]

\* draws for one creature of createCows
CowDraw(x, z, timer, speed) == [x |-> x, z |-> z, timer |-> timer, speed |-> speed]
UnderCraft == CowDraw(0, 0, 0, 10)
NearCraft == CowDraw(1000, 0, 3000, 20)
FarAway == CowDraw(150000, -80000, 1000, 15)
\* herds: the first creature as given, the others far from the craft
HerdOf(first, rest) == [i \in 1..COW_COUNT |-> IF i = 1 THEN first ELSE rest]

\* init() of main.js: the managers, the craft with its exhaust emitter, the
\* creatures; the state manager shows the start screen
Constructed(herd) ==
    createCows(
        createEngineExhaust(
            [gsm |-> [currentState |-> "start", score |-> 0,
                      health |-> START_HEALTH, highScores |-> <<>>],
             ufo |-> [pos |-> Vec(0, UFO_START_HEIGHT, 0), vel |-> Zero3,
                      hoverOffset |-> 0, hoverDirection |-> 1, beam |-> FALSE,
                      exhaustEmitter |-> 1],
             cows |-> <<>>, jets |-> <<>>, missiles |-> <<>>, ps |-> <<>>,
             lastJetSpawn |-> 0, currentSpawnInterval |-> SPAWN_INTERVAL_BASE,
             events |-> <<Ev("init", 0, 0)>>, used |-> {},
             boundTo |-> [cows |-> 1, jets |-> 2, missiles |-> 3],
             miniMap |-> [made |-> FALSE,
                          gameObjects |-> [cows |-> 0, jets |-> 0, missiles |-> 0]],
             detached |-> <<>>],
            1, Vec(0, UFO_START_HEIGHT - 1500, 0), Rnd0),
        herd)

\* A state of play some time after the start: the craft at pos with
\* velocity vel, health h, the last spawn ago milliseconds back, attackers
\* at[i] = [pos, fired] (fired: milliseconds since it last fired) and
\* projectiles shots[i] = [pos, dir, age] in flight.
LastJetAt(W, a, clock) ==
    [W EXCEPT !.jets[Len(W.jets)].pos = a.pos,
              !.jets[Len(W.jets)].lastFired = clock - a.fired]
RECURSIVE WithJets(_, _, _, _)
WithJets(W, at, i, clock) ==
    IF i > Len(at) THEN W
    ELSE WithJets(LastJetAt(spawnJet(W, Rnd0), at[i], clock), at, i + 1, clock)
LastMissileAged(W, age) == [W EXCEPT !.missiles[Len(W.missiles)].lifeTime = age]
RECURSIVE WithMissiles(_, _, _)
WithMissiles(W, shots, i) ==
    IF i > Len(shots) THEN W
    ELSE WithMissiles(LastMissileAged(createMissileModel(W, shots[i].pos,
                                                         shots[i].dir, Rnd0),
                                      shots[i].age),
                      shots, i + 1)
InPlay(herd, pos, vel, h, ago, at, shots, clock) ==
    [ParticleSystemUpdate(
         WithMissiles(
             WithJets([mainStartGame(gsmStart(Constructed(herd)), clock - ago, herd)
                          EXCEPT !.ufo.pos = pos, !.ufo.vel = vel, !.gsm.health = h],
                      at, 1, clock),
             shots, 1),
         Zero3)
        EXCEPT !.events = <<Ev("play", 0, 0)>>]

InitFrom(scene, held, played) ==
  \E W \in {scene} :
    /\ gsm = W.gsm
    /\ ufo = W.ufo
    /\ cows = W.cows
    /\ jets = W.jets
    /\ missiles = W.missiles
    /\ ps = W.ps
    /\ lastJetSpawn = W.lastJetSpawn
    /\ currentSpawnInterval = W.currentSpawnInterval
    /\ events = W.events
    /\ boundTo = W.boundTo
    /\ miniMap = W.miniMap
    /\ detached = W.detached
    /\ keys = held
    /\ now = ClockStart
    /\ endGameCalls = 0
    /\ frames = played
    /\ beamFrames = [id \in Ids(W.cows) |-> 0]
    /\ idleFrames = {}
    /\ born = [id \in Ids(W.missiles) |->
                  played + 1 - W.missiles[IndexOfId(W.missiles, id)].lifeTime]


(***************************************************************************)
(* Scenes of play.                                                         *)
(***************************************************************************)
\* the craft over the origin at the height floor, at rest
AtFloor == Vec(0, UFO_MIN_HEIGHT, 0)
AtStart == Vec(0, UFO_START_HEIGHT, 0)

\* 1000 ms after the start: nothing has been spawned yet
Fresh(herd) ==
    InPlay(herd, AtFloor, Zero3, START_HEALTH, 1000, <<>>, <<>>, ClockStart)

\* Later in a game: the last attacker was spawned 3000 ms back and fired on
\* its first update; two projectiles fired at the craft while it was still
\* at its starting height fly level above it, the older one at age 499.
Engaged(herd) ==
    InPlay(herd, AtFloor, Zero3, START_HEALTH, 3000,
           <<[pos |-> Vec(150000, 12000, 0), fired |-> 3000]>>,
           <<[pos |-> Vec(-50000, UFO_START_HEIGHT, 0), dir |-> Vec(-1000, 0, 0),
              age |-> 499],
             [pos |-> Vec(90000, UFO_START_HEIGHT, 0), dir |-> Vec(-1000, 0, 0),
              age |-> 300]>>,
           ClockStart)

(***************************************************************************)
(* SpecHold: the beam is held over the herd from a craft hovering at the   *)
(* height floor; frames come every 10 ms and nothing else happens.         *)
(* requestAnimationFrame keeps calling animate(), hence the fairness: a    *)
(* frame that is due comes.  The steps of FrameDue(10) are those of        *)
(* HoldFrame, and it is enabled when HoldFrame is.                         *)
(***************************************************************************)
HoldHerds == {HerdOf(UnderCraft, NearCraft), HerdOf(UnderCraft, FarAway),
              HerdOf(FarAway, FarAway)}
InitHold ==
    \E herd \in HoldHerds :
        \/ InitFrom(Fresh(herd), {"KeyE"}, 100)
        \/ InitFrom(Engaged(herd), {"KeyE"}, 800)
HoldFrame == Frame(10, Rnd0)
NextHold == HoldFrame
SpecHold == InitHold /\ [][NextHold]_vars /\ WF_now(FrameDue(10))

(***************************************************************************)
(* SpecFly: the craft is flown with one combination of the six movement    *)
(* keys held, from rest or from a state of flight; frames come every 10 ms.*)
(* In one flight the beam is on over a creature, and can be released.      *)
(***************************************************************************)
MoveKeys == {"ArrowRight", "ArrowLeft", "Space", "Shift", "ArrowDown", "ArrowUp"}

\* the frames of a flight, and of the flights that lead to its first state:
\* to the play boundary, up to the speed limit, down to the height floor,
\* along the floor to the hill
FlyFrames == 22
ToBoundary == 480
ToSpeedLimit == 80
ToFloor == 60
ToHill == 385

\* the game one frame after W with the keys of held down, the frame at
\* time t; and n frames after W, 10 ms apart, the first at time t (n frames
\* are those of the first half, then those of the rest)
PlayedOnce(W, held, t) ==
    CHOOSE next \in {Simulate([c EXCEPT !.events = <<Ev("frame", 0, 0)>>,
                                        !.used = Ids(c.cows) \cup Ids(c.jets)
                                                   \cup Ids(c.missiles) \cup Ids(c.ps)],
                              held, t, Rnd0) : c \in {W}} : TRUE
RECURSIVE Played(_, _, _, _)
Played(W, n, held, t) ==
    IF n = 0 THEN W
    ELSE IF n = 1 THEN PlayedOnce(W, held, t)
    ELSE CHOOSE last \in {Played(mid, n - (n \div 2), held, t + 10 * (n \div 2)) :
                               mid \in {Played(W, n \div 2, held, t)}} : TRUE

\* a game whose first n frames the player held the keys of held down
InFlight(n, held, herd) ==
    [Played(InPlay(herd, AtStart, Zero3, START_HEALTH, 10 * n, <<>>, <<>>, ClockStart),
            n, held, ClockStart - 10 * n + 10)
        EXCEPT !.events = <<Ev("play", 0, 0)>>]

Flights == {<<0, {}>>,
            <<ToBoundary, {"ArrowRight"}>>,
            <<ToBoundary, {"ArrowLeft"}>>,
            <<ToBoundary, {"ArrowDown"}>>,
            <<ToBoundary, {"ArrowUp"}>>,
            <<ToSpeedLimit, {"ArrowRight", "ArrowUp", "Space"}>>,
            <<ToFloor, {"Shift", "ArrowLeft"}>>}
\* a creature that the craft of the flight to the speed limit has just
\* passed over
PassedOver == CowDraw(15000, -15000, 0, 10)
\* a creature on top of a hill of the terrain, higher than the height floor
\* of the craft, that the craft flying along the floor is about to reach
OnTheHill == CowDraw(157000, 0, 0, 10)
InitFly ==
    \/ \E f \in Flights :
         \E W \in {InFlight(f[1], f[2], HerdOf(FarAway, FarAway))} :
           \E held \in SUBSET MoveKeys : InitFrom(W, held, f[1])
    \/ \E W \in {InFlight(ToSpeedLimit, {"ArrowRight", "ArrowUp", "Space"},
                          HerdOf(PassedOver, FarAway))} :
         \E held \in SUBSET MoveKeys : InitFrom(W, held \cup {"KeyE"}, ToSpeedLimit)
    \/ \E W \in {InFlight(ToHill, {"ArrowRight", "Shift"}, HerdOf(OnTheHill, FarAway))} :
         \E held \in SUBSET MoveKeys : InitFrom(W, held \cup {"KeyE"}, ToHill)
FlyFrame == now < ClockStart + 10 * FlyFrames /\ Frame(10, Rnd0)
ReleaseBeam == KeyUp("KeyE")
NextFly == FlyFrame \/ ReleaseBeam
SpecFly == InitFly /\ [][NextFly]_vars

(***************************************************************************)
(* SpecParticles: the particle system on its own, with four emitters       *)
(* registered; its update() is called, once per frame played, and          *)
(* removeEmitter is called with any emitter at any time, also with one     *)
(* that has left the system, with null, or with an object that never was   *)
(* an emitter.  The game calls update() in every frame it simulates, hence *)
(* the fairness: an update() that is due comes.  The steps of UpdateDue    *)
(* are those of CallUpdate, and it is enabled when CallUpdate is.          *)
(***************************************************************************)
\* the calls of update()
MaxUpdates == 65

\* the craft's exhaust, an explosion, the exhaust of a projectile, sparkles
FourEmitters ==
    createEmitter(
        createEngineExhaust(
            createExplosion(Constructed(HerdOf(FarAway, FarAway)),
                            Vec(3000, 20000, 0), 30, Rnd0),
            COW_COUNT + 3, Vec(50000, 20000, 0), Rnd0),
        COW_COUNT + 4, "sparkle", Vec(0, 5000, 0), Vec(0, 1000, 0),
        TRUE, 1, 5, Rnd1)
InitParticles == InitFrom(FourEmitters, {}, 0)
Handles == 0..(COW_COUNT + 4)
UpdateDue == frames < MaxUpdates /\ frames' = frames + 1
CallUpdate ==
    /\ UpdateDue
    /\ \E W \in {ParticleSystemUpdate(Work("update"), Zero3)} : Store(W)
    /\ UNCHANGED <<keys, now, endGameCalls, born, idleFrames>>
CallRemoveEmitter(id) ==
    /\ \E W \in {removeEmitter(Work("remove"), id)} : Store(W)
    /\ UNCHANGED <<keys, now, endGameCalls, frames, born, idleFrames>>
NextParticles == CallUpdate \/ \E id \in Handles : CallRemoveEmitter(id)
SpecParticles == InitParticles /\ [][NextParticles]_vars /\ WF_frames(UpdateDue)

(***************************************************************************)
(* Spec: the whole program.  It starts at the start screen or in one of    *)
(* four scenes of play; the player clicks the buttons, presses and         *)
(* releases keys, and frames come FrameTime ms apart with either draw of   *)
(* the random numbers.                                                     *)
(***************************************************************************)
\* the time between two frames (a slow display; attackers spawn and fire
\* within a few frames)
FrameTime == 2000

\* three attackers closing in from three sides: they reach the craft in the
\* first, the second and the third frame
ThreeHits(herd) ==
    InPlay(herd, AtStart, Zero3, START_HEALTH, 1000,
           <<[pos |-> Vec(4700, UFO_START_HEIGHT, 0), fired |-> 0],
             [pos |-> Vec(-5000, UFO_START_HEIGHT, 0), fired |-> 0],
             [pos |-> Vec(0, UFO_START_HEIGHT, 5300), fired |-> 0]>>,
           <<>>, ClockStart)

\* a damaged craft with two attackers and a projectile about to reach it in
\* the same frame
Volley(herd) ==
    InPlay(herd, AtStart, Zero3, 1, 1000,
           <<[pos |-> Vec(4700, UFO_START_HEIGHT, 0), fired |-> 0],
             [pos |-> Vec(-4700, UFO_START_HEIGHT, 0), fired |-> 0]>>,
           <<[pos |-> Vec(0, UFO_START_HEIGHT, 2900), dir |-> Vec(0, 0, -1000),
              age |-> 40]>>,
           ClockStart)

\* the craft racing away from an attacker at the edge of the out-of-bounds
\* distance, with an old projectile, a young one and one about to leave
Escape(herd) ==
    InPlay(herd, AtStart, Vec(-490, 0, 0), START_HEALTH, 1000,
           <<[pos |-> Vec(299900, UFO_START_HEIGHT, 0), fired |-> 0],
             [pos |-> Vec(100000, UFO_START_HEIGHT, 0), fired |-> 0]>>,
           <<[pos |-> Vec(50000, UFO_START_HEIGHT + 10000, 0), dir |-> Vec(0, 0, 1000),
              age |-> MISSILE_MAX_LIFE],
             [pos |-> Vec(90000, UFO_START_HEIGHT + 10000, 0), dir |-> Vec(-1000, 0, 0),
              age |-> 100],
             [pos |-> Vec(0, UFO_START_HEIGHT, 299800), dir |-> Vec(0, 0, 1000),
              age |-> 200]>>,
           ClockStart)

\* a damaged craft low over a creature on a rise of the terrain, the beam
\* on, an attacker three frames away
OnTheRise == CowDraw(20000, 0, 0, 10)
Harvest(herd) ==
    InPlay(herd, Vec(20000, UFO_MIN_HEIGHT, 0), Zero3, 1, 1000,
           <<[pos |-> Vec(25300, UFO_MIN_HEIGHT, 0), fired |-> 0]>>, <<>>,
           ClockStart)

Herds == {HerdOf(OnTheRise, FarAway), HerdOf(UnderCraft, NearCraft)}
GameKeys == {"KeyE"}

Init ==
    \/ \E herd \in Herds : InitFrom(Constructed(herd), {}, 0)
    \/ InitFrom(ThreeHits(HerdOf(FarAway, FarAway)), {}, 100)
    \/ InitFrom(Volley(HerdOf(FarAway, FarAway)), {}, 100)
    \/ InitFrom(Escape(HerdOf(FarAway, FarAway)), {}, 100)
    \/ InitFrom(Harvest(HerdOf(OnTheRise, FarAway)), {"KeyE"}, 100)

StepFrame == \E rnd \in {Rnd0, Rnd1} : Frame(FrameTime, rnd)

Next ==
    \/ \E herd \in Herds : ClickStart(herd)
    \/ \E herd \in Herds : ClickRestart(herd)
    \/ PressP
    \/ ClickResume
    \/ ClickHelp
    \/ ClickHelpBack
    \/ \E k \in GameKeys : KeyDown(k)
    \/ \E k \in GameKeys : KeyUp(k)
    \/ StepFrame

Spec == Init /\ [][Next]_vars

(***************************************************************************)
(* Properties.  A frame is a step whose log starts with "frame"; the log   *)
(* of a step is events', the state before it is unprimed.                  *)
(***************************************************************************)
IsFrame(log) == log[1].op = "frame"
IsStart(log) == log[1].op \in {"startGame", "restartGame"}

\* C1: health is 3 after a start or restart, and between a start or restart
\* and the next restart GameStateManager.endGame is invoked at most once
\* (three attacker collisions in sequence end the game once, not more).
C1_OneGameEnd ==
    /\ IsStart(events) => gsm.health = START_HEALTH
    /\ endGameCalls <= 1
\* the third of three collisions in sequence has ended the game twice
C1_ThirdCollision ==
    /\ frames = 103
    /\ gsm.health = 0
    /\ Count(events, "hitJet") = 1
    /\ Count(events, "inRange") = 1
    /\ endGameCalls = 2

\* C2: in every frame every creature (while the beam is on), attacker and
\* projectile that is in its array when the frame begins and is still there
\* when it ends has received its per-frame update exactly once: a removal
\* during a traversal skips nobody.
C2_EveryEntityUpdatedOnce ==
    [][IsFrame(events') =>
         /\ \A id \in Ids(jets) \cap Ids(jets') :
                CountId(events', "visitJet", id) = 1
         /\ \A id \in Ids(missiles) \cap Ids(missiles') :
                CountId(events', "visitMissile", id) = 1
         /\ "KeyE" \in keys =>
                \A id \in Ids(cows) \cap Ids(cows') :
                    CountId(events', "visitCow", id) = 1]_vars
\* a projectile aged out and the one behind it in the array was passed over
C2_NeighbourSkipped ==
    /\ IsFrame(events)
    /\ Count(events, "missileAgedOut") = 1
    /\ \E i \in 1..Len(missiles) :
           /\ CountId(events, "visitMissile", missiles[i].id) = 0
           /\ CountId(events, "fire", missiles[i].id) = 0

\* C3: every attacker and projectile within hit range of the craft when the
\* collision pass begins is removed in that frame and takes one point of
\* health: n in range give n removals and n decrements.
C3_EveryHitCounts ==
    IsFrame(events) =>
        /\ Count(events, "hitJet") + Count(events, "hitMissile")
               = Count(events, "inRange")
        /\ Count(events, "damage") = Count(events, "inRange")
        /\ \A i \in 1..Len(events) :
               events[i].op = "inRange" =>
                   events[i].id \notin Ids(jets) \cup Ids(missiles)
\* three entities were in range and two of them hit
C3_OneOfThreeMissed ==
    /\ IsFrame(events)
    /\ Count(events, "inRange") = 3
    /\ Count(events, "damage") = 2
    /\ \E i \in 1..Len(jets) : JetHits(jets[i], ufo)

\* C4: health stays within 0..3, also when several entities hit the craft
\* in one frame while health is 1.
C4_HealthRange == gsm.health >= 0 /\ gsm.health <= START_HEALTH
\* two hits in one frame took health from 1 to -1
C4_BelowZero ==
    /\ IsFrame(events)
    /\ Count(events, "damage") = 2
    /\ gsm.health = -1

\* C5: whenever an attacker or a projectile leaves its array (off the field,
\* aged out, collision, restart) its exhaust emitter is released exactly once
\* and, for an attacker, its engine sound is stopped exactly once; an entity
\* without an emitter is removed without error; no entity that is gone keeps
\* an emitter registered: the continuous emitters of the particle system are
\* those of the craft and of the attackers and projectiles in the arrays.
C5_Owned ==
    {ufo.exhaustEmitter}
        \cup {jets[i].exhaustEmitter : i \in 1..Len(jets)}
        \cup {missiles[i].exhaustEmitter : i \in 1..Len(missiles)}
C5_Released(log, e) ==
    /\ CountId(log, e.op, e.id) = 1
    /\ e.op = "removeJet" => CountId(log, "stopSound", e.id) = 1
    /\ e.aux # 0 =>
           /\ CountId(log, "removeEmitter", e.aux) = 1
           /\ \A j \in 1..Len(log) :
                  (log[j].op = "removeEmitter" /\ log[j].id = e.aux) => log[j].aux # 0
           /\ e.aux \notin Ids(ps)
C5_EmittersReleased ==
    /\ [](/\ \A i \in 1..Len(events) :
                 events[i].op \in {"removeJet", "removeMissile"} =>
                     C5_Released(events, events[i])
          /\ {ps[i].id : i \in {j \in 1..Len(ps) : ~ps[j].oneShot}}
                 = C5_Owned \ {0})
    /\ [][/\ \A id \in Ids(jets) \ Ids(jets') :
                 CountId(events', "removeJet", id) = 1
          /\ \A id \in Ids(missiles) \ Ids(missiles') :
                 CountId(events', "removeMissile", id) = 1]_vars
\* an attacker left the field, a projectile left it and another aged out, all
\* in one frame, and three emitters were released
C5_ThreeRemovals ==
    /\ IsFrame(events)
    /\ Count(events, "jetOutOfBounds") = 1
    /\ Count(events, "missileOutOfBounds") = 1
    /\ Count(events, "missileAgedOut") = 1
    /\ Count(events, "removeEmitter") = 3
    /\ Count(events, "stopSound") = 1

\* C6: while the beam stays on, a creature that is being abducted has
\* progress k * BEAM_STRENGTH after the k-th frame that follows the frame in
\* which it became eligible, other creatures completing their abduction in
\* those frames or not.
C6_ProgressPerFrame ==
    \A i \in 1..Len(cows) :
        cows[i].isBeingAbducted =>
            cows[i].abductionProgress = BEAM_STRENGTH * (beamFrames[cows[i].id] - 1)
\* a creature fell a frame behind in the frame that completed the abduction
\* of the one before it in the array
C6_FrameBehind ==
    /\ IsFrame(events)
    /\ Count(events, "abducted") = 1
    /\ \E i \in 1..Len(cows) :
           /\ cows[i].isBeingAbducted
           /\ CountId(events, "visitCow", cows[i].id) = 0
           /\ cows[i].abductionProgress = BEAM_STRENGTH * (beamFrames[cows[i].id] - 2)

\* C7: a projectile is out of the array by the 500th frame after the one
\* that created it, other projectiles being removed in between or not, and
\* it is not removed for its age in an earlier frame.
C7_RemovedByFrame500 ==
    /\ [](\A i \in 1..Len(missiles) :
              frames - born[missiles[i].id] < MISSILE_MAX_LIFE)
    /\ [][\A i \in 1..Len(events') :
              (events'[i].op = "missileAgedOut" /\ events'[i].id \in DOMAIN born) =>
                  frames' - born[events'[i].id] >= MISSILE_MAX_LIFE]_vars
\* a projectile is in the array 500 frames after its creation, one frame of
\* ageing short
C7_Overdue ==
    \E i \in 1..Len(missiles) :
        /\ frames - born[missiles[i].id] = MISSILE_MAX_LIFE
        /\ missiles[i].lifeTime = MISSILE_MAX_LIFE

\* C8: a frame spawns no attacker while the time since the last spawn (or
\* since the start of the game) is at most the current interval, and spawns
\* exactly one, setting lastJetSpawn to the time of the frame, when it is
\* more; with the interval at 5000 and nothing spawned since the start,
\* there is no attacker until more than 5000 ms have passed.
C8_SpawnSchedule ==
    /\ [][IsFrame(events') =>
            IF now' - lastJetSpawn > currentSpawnInterval'
            THEN /\ Count(events', "spawn") = 1
                 /\ lastJetSpawn' = now'
            ELSE /\ Count(events', "spawn") = 0
                 /\ lastJetSpawn' = lastJetSpawn]_vars
    /\ []((lastJetSpawn = ClockStart - 1000 /\ currentSpawnInterval = SPAWN_INTERVAL_BASE)
              => (Len(jets) = 0 /\ now - lastJetSpawn <= SPAWN_INTERVAL_BASE))
\* the first attacker, in the first frame more than 5000 ms after the start
C8_FirstSpawn ==
    /\ IsFrame(events)
    /\ Count(events, "spawn") = 1
    /\ currentSpawnInterval = SPAWN_INTERVAL_BASE
    /\ lastJetSpawn = now
    /\ now - 10 = ClockStart - 1000 + SPAWN_INTERVAL_BASE
    /\ Len(jets) = 1

\* C9: the spawn interval never grows within a game: each completed
\* abduction sets it to max(1000, interval * 0.9), it never falls below
\* 1000, and only a start or restart sets it back to 5000.
RECURSIVE C9_After(_, _)
C9_After(interval, n) ==
    IF n = 0 THEN interval
    ELSE C9_After(Max(SPAWN_INTERVAL_MIN,
                      (interval * (100 - SPAWN_RATE_INCREASE)) \div 100), n - 1)
C9_IntervalNeverGrows ==
    /\ [](currentSpawnInterval >= SPAWN_INTERVAL_MIN)
    /\ [][IF IsStart(events')
          THEN currentSpawnInterval' = SPAWN_INTERVAL_BASE
          ELSE /\ currentSpawnInterval' <= currentSpawnInterval
               /\ currentSpawnInterval'
                      = C9_After(currentSpawnInterval, Count(events', "abducted"))]_vars
\* a restart after a game with one abduction: the interval is back at 5000
C9_ResetByRestart ==
    /\ events[1].op = "restartGame"
    /\ currentSpawnInterval = SPAWN_INTERVAL_BASE
    /\ Len(gsm.highScores) > 0
    /\ gsm.highScores[1] = ABDUCT_SCORE

\* C10: with the beam held on, the craft at (0, 5, 0) and a creature on the
\* ground right under it at (0, 1, 0), the creature is eventually out of the
\* array; a creature is removed in the frame whose pull brings it within
\* ABDUCT_RADIUS of the craft and in no other, and each removal adds 100 to
\* the score and tightens the spawn interval.
C10_Under(c) ==
    /\ gsm.currentState = "playing"
    /\ "KeyE" \in keys
    /\ ufo.pos = Vec(0, 5000, 0)
    /\ \E i \in 1..Len(cows) : cows[i].id = c /\ cows[i].pos = Vec(0, 1000, 0)
C10_AbductionCompletes ==
    /\ \A c \in 1..(COW_COUNT + 1) : C10_Under(c) ~> (c \notin Ids(cows))
    /\ [][IsFrame(events') =>
            /\ \A id \in Ids(cows) \ Ids(cows') :
                   /\ CountId(events', "pull", id) = 1
                   /\ CountId(events', "abducted", id) = 1
            /\ \A i \in 1..Len(cows') :
                   CountId(events', "pull", cows'[i].id) = 1 =>
                       ~DistLess(cows'[i].pos, ufo'.pos, ABDUCT_RADIUS)
            /\ gsm'.score = gsm.score + ABDUCT_SCORE * Cardinality(Ids(cows) \ Ids(cows'))
            /\ Ids(cows) \ Ids(cows') # {} =>
                   currentSpawnInterval' < currentSpawnInterval]_vars
\* the creature under the craft has been abducted: the first 100 points
C10_FirstAbduction ==
    /\ IsFrame(events)
    /\ Count(events, "abducted") = 1
    /\ gsm.score = ABDUCT_SCORE
    /\ currentSpawnInterval < SPAWN_INTERVAL_BASE
    /\ Len(cows) = COW_COUNT - 1

\* C11: once health has reached 0 and the game has been ended, nothing of
\* the simulation changes until a restart: in the frame that ends the game
\* no hit, damage, removal, score or health update follows the first
\* endGame, and in the game-over state health, score, the spawn interval and
\* the three arrays stay as they are and the state is left by a restart only.
C11_Simulation ==
    {"hitJet", "hitMissile", "damage", "updateHealth", "updateScore", "removeJet",
     "removeMissile", "abducted", "spawn", "fire"}
C11_HaltsWhenDestroyed ==
    /\ [](\A i, j \in 1..Len(events) :
              (i < j /\ events[i].op = "endGame") => events[j].op \notin C11_Simulation)
    /\ [][(gsm.currentState = "gameOver" /\ ~IsStart(events')) =>
              /\ gsm' = gsm
              /\ UNCHANGED <<currentSpawnInterval, cows, jets, missiles>>]_vars
\* a projectile hit the craft after the game had been ended in the same
\* collision pass, and took health below 0
C11_HitAfterDestroyed ==
    /\ gsm.currentState = "gameOver"
    /\ gsm.health < 0
    /\ \E i, j \in 1..Len(events) :
           i < j /\ events[i].op = "endGame" /\ events[j].op = "hitMissile"

\* C12: a frame taken while the game is not active (start, paused, help,
\* game over) changes nothing of the simulation: the craft, the creatures,
\* the attackers, the projectiles, the particles, score, health and the
\* spawn timers are as before.  Frames are the steps that advance the clock.
C12_InactiveFrameIdle ==
    [][(now' # now /\ gsm.currentState # "playing") =>
           UNCHANGED <<gsm, ufo, cows, jets, missiles, ps, lastJetSpawn,
                       currentSpawnInterval>>]_vars
\* a frame came while the game was paused with an attacker in the air
C12_PausedFrame ==
    /\ events[1].op = "idleFrame"
    /\ gsm.currentState = "paused"
    /\ Len(jets) > 0
    /\ Len(ps) > 1

\* C13: after a restart the creature array holds exactly COW_COUNT
\* creatures, all idle with progress 0; the attacker and projectile arrays
\* are empty; health is 3, score 0, the spawn interval is the base value and
\* lastJetSpawn is the time of the restart; the craft is at (0, 20, 0) at
\* rest; the game is active.
C13_RestartReinitializes ==
    events[1].op = "restartGame" =>
        /\ Len(cows) = COW_COUNT
        /\ \A i \in 1..Len(cows) :
               ~cows[i].isBeingAbducted /\ cows[i].abductionProgress = 0
        /\ Cardinality(Ids(cows)) = COW_COUNT
        /\ jets = <<>>
        /\ missiles = <<>>
        /\ gsm.health = 3
        /\ gsm.score = 0
        /\ currentSpawnInterval = SPAWN_INTERVAL_BASE
        /\ lastJetSpawn = now
        /\ ufo.pos = Vec(0, 20000, 0)
        /\ ufo.vel = Zero3
        /\ gsm.currentState = "playing"
\* a restart after a game that had taken a creature and the points for it:
\* the herd is whole again
C13_RestartAfterAbduction ==
    /\ events[1].op = "restartGame"
    /\ Count(events, "made") = COW_COUNT
    /\ Len(gsm.highScores) > 0
    /\ gsm.highScores[1] = ABDUCT_SCORE
    /\ Len(cows) = COW_COUNT
    /\ lastJetSpawn > ClockStart

\* C14: an active frame runs the craft (with the beam), the creatures, the
\* attackers, the projectiles, the particles and the collision checks in
\* this order, and the collision checks see the positions the frame has
\* written: what the log records of each step comes in the order of the
\* steps; an emitter made before the particle step has been integrated once
\* when the frame ends and one made by the collision checks has not; an
\* attacker or projectile still in its array was noted in hit range exactly
\* if it is in hit range where the frame left it and the craft.
C14_Stage(op) ==
    CASE op \in {"visitCow", "startAbduct", "pull", "abducted", "updateScore"} -> 1
      [] op \in {"spawn", "visitJet", "fire", "jetOutOfBounds"} -> 2
      [] op \in {"visitMissile", "missileOutOfBounds", "missileAgedOut"} -> 3
      [] op = "emitterDied" -> 4
      [] op \in {"inRange", "hitJet", "hitMissile", "damage", "updateHealth",
                 "endGame"} -> 5
      [] OTHER -> 0
C15_OneShotLifetime ==
    /\ [](\A i \in 1..Len(ps) :
              ps[i].oneShot =>
                  /\ \A j \in 1..Len(ps[i].particles) :
                         ps[i].particles[j].age <= particleTypes[ps[i].type].lifetime
                  /\ \E j \in 1..Len(ps[i].particles) :
                         ps[i].particles[j].age < particleTypes[ps[i].type].lifetime)
    /\ [][\A e \in 1..Len(events') :
              events'[e].op = "emitterDied" =>
                  /\ events'[e].id \notin Ids(ps')
                  /\ \E i \in 1..Len(ps) :
                         /\ ps[i].id = events'[e].id
                         /\ ps[i].oneShot
                         /\ \A j \in 1..Len(ps[i].particles) :
                                ps[i].particles[j].age + 1
                                    = particleTypes[ps[i].type].lifetime]_vars
\* the sparkles of a completed abduction have burnt out, 20 frames after it
C15_SparklesGone ==
    /\ IsFrame(events)
    /\ Count(events, "emitterDied") = 1
    /\ gsm.score = ABDUCT_SCORE
    /\ \A i \in 1..Len(ps) : ~ps[i].oneShot


\* C16: after every update of the craft, whatever combination of the six
\* movement keys is held, the speed of the craft is at most MAX_SPEED.  On
\* the grid of lengths the vector set to length MAX_SPEED has its components
\* cut to whole units of a length that was itself cut to a whole unit, so
\* it is less than "one unit above MAX_SPEED" long.
C16_SpeedLimited == ~DistGreater(ufo.vel, Zero3, MAX_SPEED + 1)
\* the craft flies at the speed limit with keys of all three axes held
C16_AtSpeedLimit ==
    /\ IsFrame(events)
    /\ now > ClockStart
    /\ keys = {"ArrowRight", "ArrowUp", "Space"}
    /\ DistGreater(ufo.vel, Zero3, MAX_SPEED - 1)

\* C17: after every update of the craft its x and z are within GAME_BOUNDS
\* of the origin, and on an axis where the move left the bounds the position
\* is set to the bound and the velocity is the moved-by velocity times -0.5,
\* in that same update.
C17_Kept(p, v, posAfter, velAfter) ==
    IF Abs(p) > GAME_BOUNDS
    THEN posAfter = Sign(p) * GAME_BOUNDS /\ velAfter = MulDiv(v, -5, 10)
    ELSE posAfter = p /\ velAfter = v
C17_WithinBounds ==
    /\ [](Abs(ufo.pos.x) <= GAME_BOUNDS /\ Abs(ufo.pos.z) <= GAME_BOUNDS)
    /\ [][IsFrame(events') =>
              \E v \in {NextVelocity(ufo.vel, keys)} :
                  /\ C17_Kept(ufo.pos.x + v.x, v.x, ufo'.pos.x, ufo'.vel.x)
                  /\ C17_Kept(ufo.pos.z + v.z, v.z, ufo'.pos.z, ufo'.vel.z)]_vars
\* the craft was stopped at the far bound of z and thrown back while the key
\* towards the bound is held
C17_ThrownBack ==
    /\ IsFrame(events)
    /\ "ArrowUp" \in keys
    /\ ufo.pos.z = -GAME_BOUNDS
    /\ ufo.vel.z > 0


\* C18: a creature being abducted never becomes idle again, neither when
\* the beam is released nor when the craft moves away: in every step but a
\* restart it is still being abducted afterwards, or it has left the array
\* by the completion of its abduction.
C18_NoReturnToIdle ==
    [][events'[1].op # "restartGame" =>
          \A i \in 1..Len(cows) :
              cows[i].isBeingAbducted =>
                  \E j \in {IndexOfId(cows', cows[i].id)} :
                      IF j = 0 THEN CountId(events', "abducted", cows[i].id) = 1
                      ELSE cows'[j].isBeingAbducted]_vars
\* the beam is off and the craft has flown on, out of range of a creature
\* that is still being abducted
C18_LeftHanging ==
    /\ IsFrame(events)
    /\ "KeyE" \notin keys
    /\ ~ufo.beam
    /\ \E i \in 1..Len(cows) :
           /\ cows[i].isBeingAbducted
           /\ cows[i].abductionProgress > 0
           /\ ~InBeam(cows[i], ufo)


\* C20: in a frame an idle creature becomes one being abducted, its progress
\* 0, if and only if it has its turn in the beam pass of the frame and at
\* that turn the beam is on, the creature is horizontally less than
\* BEAM_RANGE / 2 from the craft and lower than the craft; otherwise it stays
\* idle with its progress unchanged.  At its turn the craft has made the
\* move of the frame and the creature has not.
C20_Caught(cow, craft) ==
    /\ "KeyE" \in keys
    /\ PairLess(PairAdd(Sq(cow.pos.x - craft.pos.x), Sq(cow.pos.z - craft.pos.z)),
                Sq(BEAM_RANGE \div 2))
    /\ cow.pos.y < craft.pos.y
C20_AbductionStarts ==
    [][IsFrame(events') =>
          \A i \in 1..Len(cows) :
              ~cows[i].isBeingAbducted =>
                  \E j \in {IndexOfId(cows', cows[i].id)} :
                      /\ j # 0
                      /\ cows'[j].isBeingAbducted <=>
                             /\ CountId(events', "visitCow", cows[i].id) = 1
                             /\ C20_Caught(cows[i], ufo')
                      /\ cows'[j].abductionProgress =
                             IF cows'[j].isBeingAbducted THEN 0
                             ELSE cows[i].abductionProgress]_vars
\* the craft passing over a creature has started its abduction in this frame
C20_JustCaught ==
    /\ IsFrame(events)
    /\ Count(events, "startAbduct") = 1
    /\ ufo.vel # Zero3
    /\ \E i \in 1..Len(cows) :
           cows[i].isBeingAbducted /\ cows[i].abductionProgress = 0


\* C19: removeEmitter called with an emitter that has already left the
\* particle system, by an earlier removeEmitter or by the end of a one-shot
\* emitter, changes nothing: the registered emitters and their states are
\* the same after the call.
C19_Registered == Ids(FourEmitters.ps)
C19_RemoveRemoved ==
    [][\A id \in C19_Registered :
           (/\ id \notin Ids(ps)
            /\ events'[1].op = "remove"
            /\ CountId(events', "removeEmitter", id) = 1) => ps' = ps]_vars
\* removeEmitter was called with the sparkle emitter after it had left the
\* system, while other emitters were registered
C19_RemovedTwice ==
    /\ events[1].op = "remove"
    /\ \E i \in 1..Len(events) :
           /\ events[i].op = "removeEmitter"
           /\ events[i].id = COW_COUNT + 4
           /\ events[i].aux = 0
    /\ Len(ps) >= 2


\* C21: in every frame played a creature that is being abducted gains
\* BEAM_STRENGTH of progress, and in no step but a restart does the progress
\* of a creature go down or is a creature being abducted set back to 0.
C21_ProgressEveryFrame ==
    /\ [][IsFrame(events') =>
              \A i \in 1..Len(cows) :
                  cows[i].isBeingAbducted =>
                      \E j \in {IndexOfId(cows', cows[i].id)} :
                          j # 0 => cows'[j].abductionProgress
                                       = cows[i].abductionProgress + BEAM_STRENGTH]_vars
    /\ [][events'[1].op # "restartGame" =>
              \A i \in 1..Len(cows) :
                  \E j \in {IndexOfId(cows', cows[i].id)} :
                      j # 0 => cows'[j].abductionProgress >= cows[i].abductionProgress]_vars
\* with the beam on, a frame went by in which a creature being abducted was
\* not pulled
C21_FrameWithoutPull ==
    /\ IsFrame(events)
    /\ ufo.beam
    /\ \E i \in 1..Len(cows) :
           /\ cows[i].isBeingAbducted
           /\ cows[i].abductionProgress > 0
           /\ CountId(events, "pull", cows[i].id) = 0


\* C22: an attacker fires in a frame only if more than its fire interval has
\* gone by since lastFired, and lastFired is then the time of the frame; an
\* attacker spawned in the frame, 0 ms old, does not fire in it.
C22_FiresWhenDue ==
    [][IsFrame(events') =>
          \A j \in 1..Len(jets') :
              \E i \in {IndexOfId(jets, jets'[j].id)} :
                  IF i = 0
                  THEN jets'[j].lastFired # now'
                  ELSE jets'[j].lastFired # jets[i].lastFired =>
                           /\ now' - jets[i].lastFired > jets[i].fireRate
                           /\ jets'[j].lastFired = now']_vars
\* the attacker spawned in this frame has fired in it
C22_FiredAtSpawn ==
    /\ IsFrame(events)
    /\ Count(events, "spawn") = 1
    /\ Count(events, "fire") >= 1
    /\ \E j \in 1..Len(jets) :
           /\ CountId(events, "spawn", jets[j].id) = 1
           /\ jets[j].lastFired = now
           /\ \E m \in 1..Len(missiles) : CountId(events, "fire", missiles[m].id) = 1


\* C23: an attacker spawned in a frame is in the array when the frame ends,
\* within the out-of-bounds distance of the craft: it is not removed as out
\* of bounds in the frame of its spawn, wherever in the play area the craft
\* is.
C23_SurvivesSpawnFrame ==
    [][IsFrame(events') =>
          \A e \in 1..Len(events') :
              events'[e].op = "spawn" =>
                  /\ CountId(events', "jetOutOfBounds", events'[e].id) = 0
                  /\ \E j \in 1..Len(jets') :
                         /\ jets'[j].id = events'[e].id
                         /\ ~DistGreater(jets'[j].pos, ufo'.pos, OUT_OF_BOUNDS)]_vars
\* with the craft at the far side of the play area, the attacker spawned in
\* this frame was removed in it as out of bounds
C23_GoneAtSpawn ==
    /\ IsFrame(events)
    /\ \E e \in 1..Len(events) :
           /\ events[e].op = "spawn"
           /\ CountId(events, "jetOutOfBounds", events[e].id) = 1
           /\ events[e].id \notin Ids(jets)
    /\ Abs(ufo.pos.x) <= GAME_BOUNDS
    /\ Abs(ufo.pos.z) <= GAME_BOUNDS


\* C24: the time of frames not simulated does not count for the spawn and
\* fire intervals: a frame spawns an attacker only if more than the spawn
\* interval of play time has gone by since lastJetSpawn, and an attacker that
\* was there before the frame fires in it only if more than its fire interval
\* of play time has gone by since its lastFired.  The play time between two
\* instants is the time between them less that of the idle frames in between.
RECURSIVE C24_IdleTime(_)
C24_IdleTime(S) ==
    IF S = {} THEN 0
    ELSE LET f == CHOOSE g \in S : TRUE
         IN  f[2] + C24_IdleTime(S \ {f})
C24_PlayTime(from, to) ==
    (to - from) - C24_IdleTime({f \in idleFrames : from < f[1] /\ f[1] <= to})
C24_PauseDoesNotCount ==
    [][IsFrame(events') =>
          /\ Count(events', "spawn") > 0 =>
                 C24_PlayTime(lastJetSpawn, now') > currentSpawnInterval'
          /\ \A i \in 1..Len(jets) :
                 \E j \in {IndexOfId(jets', jets[i].id)} :
                     (j # 0 /\ jets'[j].lastFired # jets[i].lastFired) =>
                         C24_PlayTime(jets[i].lastFired, now') > jets[i].fireRate]_vars
\* the first frame after a pause of two frames has spawned an attacker,
\* 3000 ms of play after the last spawn
C24_SpawnAfterPause ==
    /\ IsFrame(events)
    /\ Count(events, "spawn") = 1
    /\ frames = 101
    /\ Cardinality(idleFrames) = 2
    /\ lastJetSpawn = ClockStart + 3 * FrameTime


\* C25: the high-score list holds at most MAX_HIGH_SCORES entries, highest
\* first, and a step adds one entry to it (one saveHighScore by endGame) if
\* it ends a game and none otherwise: as many entries added as games ended.
C25_OneEntryPerGame ==
    /\ [](/\ Len(gsm.highScores) <= MAX_HIGH_SCORES
          /\ \A i \in 1..(Len(gsm.highScores) - 1) :
                 gsm.highScores[i] >= gsm.highScores[i + 1])
    /\ [][Count(events', "endGame")
              = IF gsm.currentState = "playing" /\ gsm'.currentState = "gameOver"
                THEN 1 ELSE 0]_vars
\* the first game that ended has left two entries in the list
C25_TwoEntries ==
    /\ IsFrame(events)
    /\ gsm.currentState = "gameOver"
    /\ Count(events, "endGame") = 2
    /\ Len(gsm.highScores) = 2
    /\ gsm.highScores[1] = gsm.score
    /\ gsm.highScores[2] = gsm.score


\* C26: a one-shot emitter is removed by the update() call that is the
\* lifetime-th after its creation: until then it is registered with every
\* particle as old as the number of calls made, in that call it leaves the
\* system, and with update() being called every one-shot emitter is
\* eventually gone.  (SpecParticles: the emitters are created before the
\* first call and frames counts the calls.)
C26_SelfDestroys ==
    /\ [](\A i \in 1..Len(ps) :
              ps[i].oneShot =>
                  /\ frames < particleTypes[ps[i].type].lifetime
                  /\ \A k \in 1..Len(ps[i].particles) :
                         ps[i].particles[k].age = frames)
    /\ [][events'[1].op = "update" =>
              \A i \in 1..Len(ps) :
                  (ps[i].oneShot /\ frames' = particleTypes[ps[i].type].lifetime) =>
                      /\ ps[i].id \notin Ids(ps')
                      /\ CountId(events', "emitterDied", ps[i].id) = 1]_vars
    /\ <>(\A i \in 1..Len(ps) : ~ps[i].oneShot)
\* the 60th update() has removed the explosion emitter
C26_ExplosionOver ==
    /\ events[1].op = "update"
    /\ frames = particleTypes.explosion.lifetime
    /\ CountId(events, "emitterDied", COW_COUNT + 2) = 1


\* C27: update() never removes a continuous emitter, whatever the ages of
\* its particles; a continuous emitter leaves the system only in a step that
\* calls removeEmitter with it; and the update() that finds one of its
\* particles expired with the emission counter coming to 0 recycles the
\* particle.
C27_ContinuousPersists ==
    [][\A i \in 1..Len(ps) :
           ~ps[i].oneShot =>
               \E j \in {IndexOfId(ps', ps[i].id)} :
                   /\ events'[1].op = "update" => j # 0
                   /\ j = 0 => CountId(events', "removeEmitter", ps[i].id) >= 1
                   /\ (j # 0 /\ events'[1].op = "update") =>
                          /\ ~ps'[j].oneShot
                          /\ \A k \in 1..Len(ps[i].particles) :
                                 (/\ ps[i].particles[k].age
                                        >= particleTypes[ps[i].type].lifetime
                                  /\ ps'[j].emissionCounter = 0) =>
                                     ps'[j].particles[k].age
                                         < particleTypes[ps[i].type].lifetime]_vars
\* after 40 calls of update() the exhaust emitter of the craft is still
\* registered, its particle in its second life
C27_SecondLife ==
    /\ events[1].op = "update"
    /\ frames = 40
    /\ \E i \in 1..Len(ps) :
           /\ ps[i].id = 1
           /\ ~ps[i].oneShot
           /\ ps[i].particles[1].age < frames - particleTypes.exhaust.lifetime


\* C28: the update() that resets an expired particle of a continuous emitter
\* leaves it with age 0, at the origin of the emitter and with the opacity
\* of the profile: a particle that is reset is not moved and aged in the same
\* call, only particles younger than the lifetime when the call begins are.
C28_ResetOrIntegrate ==
    [][events'[1].op = "update" =>
          \A i \in 1..Len(ps) :
              \E j \in {IndexOfId(ps', ps[i].id)} :
                  (j # 0 /\ ~ps[i].oneShot /\ ps'[j].emissionCounter = 0) =>
                      \A k \in 1..Len(ps[i].particles) :
                          ps[i].particles[k].age >= particleTypes[ps[i].type].lifetime =>
                              /\ ps'[j].particles[k].age = 0
                              /\ ps'[j].particles[k].pos = Zero3
                              /\ ps'[j].particles[k].opacity
                                     = particleTypes[ps[i].type].opacity]_vars
\* the 32nd update() has reset the particle of the craft's exhaust, and it
\* is one step old and one step away from the origin
C28_ResetAndMoved ==
    /\ events[1].op = "update"
    /\ frames = 32
    /\ \E i \in 1..Len(ps) :
           /\ ps[i].id = 1
           /\ ps[i].emissionCounter = 0
           /\ ps[i].particles[1].age = 1
           /\ ps[i].particles[1].pos # Zero3


\* C29: the emission counter of an emitter is within 0..emissionRate-1 and
\* every update() of the emitter takes it one further, round the cycle; an
\* expired particle of a continuous emitter is recycled by the update() in
\* which the counter comes to 0 and left as it is by every other one.
C29_Updated(log) == log[1].op \in {"update", "frame"}
C29_RecycledAtZero ==
    /\ [](\A i \in 1..Len(ps) :
              ps[i].emissionCounter \in 0..(ps[i].emissionRate - 1))
    /\ [][C29_Updated(events') =>
              \A i \in 1..Len(ps) :
                  \E j \in {IndexOfId(ps', ps[i].id)} :
                      j # 0 =>
                          /\ ps'[j].emissionCounter
                                 = (ps[i].emissionCounter + 1) % ps[i].emissionRate
                          /\ \A k \in 1..Len(ps[i].particles) :
                                 (/\ ~ps[i].oneShot
                                  /\ ps[i].particles[k].age
                                         >= particleTypes[ps[i].type].lifetime) =>
                                     IF ps'[j].emissionCounter = 0
                                     THEN ps'[j].particles[k].age
                                              < ps[i].particles[k].age
                                     ELSE ps'[j].particles[k] = ps[i].particles[k]]_vars
\* the 31st update() has left the expired particle of the craft's exhaust
\* as it was, the counter at 1
C29_LeftExpired ==
    /\ events[1].op = "update"
    /\ frames = 31
    /\ \E i \in 1..Len(ps) :
           /\ ps[i].id = 1
           /\ ps[i].emissionRate = 2
           /\ ps[i].emissionCounter = 1
           /\ ps[i].particles[1].age = particleTypes.exhaust.lifetime


\* C30: in every state the score is ABDUCT_SCORE times the number of
\* creatures gone from the array, COW_COUNT at a start or restart; a step
\* changes the score only by ABDUCT_SCORE per abduction it completes, or to 0
\* by a start or restart; and but for a restart the array never grows.
C30_ScoreCountsAbductions ==
    /\ [](gsm.score = ABDUCT_SCORE * (COW_COUNT - Len(cows)))
    /\ [][IF IsStart(events')
          THEN gsm'.score = 0
          ELSE /\ gsm'.score = gsm.score + ABDUCT_SCORE * Count(events', "abducted")
               /\ Ids(cows') \subseteq Ids(cows)]_vars
\* the first abduction of a game is complete: one creature gone, 100 points
C30_FirstHundred ==
    /\ IsFrame(events)
    /\ Count(events, "abducted") = 1
    /\ Len(cows) = COW_COUNT - 1
    /\ gsm.score = ABDUCT_SCORE
    /\ gsm.currentState = "playing"



\* C31: the hover offset oscillates between plus and minus HOVER_HEIGHT: in
\* every state |hoverOffset| <= HOVER_HEIGHT, and in every frame the hover
\* displacement applied to position.y (the height after the frame less the
\* height the move, the floor and the bounce leave) equals the change of
\* hoverOffset in that frame.
C31_HoverFollowsOffset ==
    /\ [](Abs(ufo.hoverOffset) <= HOVER_HEIGHT)
    /\ [][IsFrame(events') =>
              \E moved \in {MoveUFO(ufo, keys)} :
                  ufo'.pos.y - moved.pos.y = ufo'.hoverOffset - ufo.hoverOffset]_vars
\* the frame in which the direction is reversed has left the offset beyond
\* the amplitude
C31_BeyondAmplitude ==
    /\ IsFrame(events)
    /\ ufo.hoverOffset > HOVER_HEIGHT
    /\ ufo.hoverDirection = -1



\* C32: after every update of the craft its altitude is at or above the
\* floor height (position.y >= 5), and in every frame in which the move
\* takes the craft below the floor the vertical velocity is 0 afterwards.
C32_AboveFloor ==
    /\ [](IsFrame(events) => ufo.pos.y >= UFO_MIN_HEIGHT)
    /\ [][IsFrame(events') =>
              \E v \in {NextVelocity(ufo.vel, keys)} :
                  ufo.pos.y + v.y < UFO_MIN_HEIGHT => ufo'.vel.y = 0]_vars
\* the craft was held down at the floor with the descent key and the hover
\* then took it below
C32_BelowFloor ==
    /\ IsFrame(events)
    /\ "Shift" \in keys
    /\ ufo.vel.y = 0
    /\ ufo.pos.y = UFO_MIN_HEIGHT - HOVER_SPEED



\* C33: the opacity of every particle is within 0 and the opacity of its
\* profile in every state; an update() lowers it only when the age of the
\* particle, as that update() leaves it, exceeds 0.7 times the lifetime, and
\* then by fadeRate or to 0; it rises only in the update() that recycles
\* the particle, to the opacity of the profile; no other step changes it.
C33_OpacityFades ==
    /\ [](\A i \in 1..Len(ps) : \A k \in 1..Len(ps[i].particles) :
              ps[i].particles[k].opacity \in 0..particleTypes[ps[i].type].opacity)
    /\ [][\A i \in 1..Len(ps) :
              \E j \in {IndexOfId(ps', ps[i].id)} :
                  (j # 0 /\ ~IsStart(events')) =>
                      \A k \in 1..Len(ps[i].particles) :
                          \E settings \in {particleTypes[ps[i].type]} :
                              /\ ps'[j].particles[k].opacity < ps[i].particles[k].opacity =>
                                     /\ C29_Updated(events')
                                     /\ ps'[j].particles[k].age * 10 > settings.lifetime * 7
                                     /\ ps'[j].particles[k].opacity
                                            = Max(ps[i].particles[k].opacity
                                                      - settings.fadeRate, 0)
                              /\ ps'[j].particles[k].opacity > ps[i].particles[k].opacity =>
                                     /\ C29_Updated(events')
                                     /\ ~ps[i].oneShot
                                     /\ ps[i].particles[k].age >= settings.lifetime
                                     /\ ps'[j].emissionCounter = 0
                                     /\ ps'[j].particles[k].age = 1
                                     /\ ps'[j].particles[k].opacity = settings.opacity]_vars
\* the 25th update() has faded the particle of the craft's exhaust for the
\* fourth time (ages 22 to 25 exceed 0.7 * 30)
C33_Fading ==
    /\ events[1].op = "update"
    /\ frames = 25
    /\ \E i \in 1..Len(ps) :
           /\ ps[i].id = 1
           /\ ps[i].particles[1].age = 25
           /\ ps[i].particles[1].opacity
                  = particleTypes.exhaust.opacity - 4 * particleTypes.exhaust.fadeRate



\* C34: after any sequence of starts and restarts the arrays of attackers
\* and of projectiles that the mini-map reads are the very arrays that jets
\* and missiles are bound to, so that the radar goes through exactly the
\* live attackers and projectiles.
C34_RadarReadsLiveArrays ==
    miniMap.made =>
        /\ miniMap.gameObjects.jets = boundTo.jets
        /\ miniMap.gameObjects.missiles = boundTo.missiles
        /\ Blips("jets") = jets
        /\ Blips("missiles") = missiles
\* after a restart the radar still goes through an attacker of the game
\* before, which the restart has removed, and jets is empty
C34_StaleBlip ==
    /\ events[1].op = "restartGame"
    /\ miniMap.made
    /\ miniMap.gameObjects.jets # boundTo.jets
    /\ Len(Blips("jets")) > 0
    /\ Len(jets) = 0
    /\ \E i \in 1..Len(Blips("jets")) :
           CountId(events, "removeJet", Blips("jets")[i].id) = 1
=============================================================================
